---- MODULE Spec2Model ----
(***************************************************************************)
(* Model of the field-normalization and comparison engine of proof-check   *)
(* (app/lib/comparison.server.ts, here src/unnamed/part_002).              *)
(*                                                                         *)
(* Texts are TLA+ strings, read character by character with SubSeq.  A     *)
(* nullable value (string | null, boolean | null) is an option: NULL is    *)
(* the empty tuple and Some(v) the one-element tuple <<v>>.  A JavaScript  *)
(* number parsed from a decimal literal is the exact fraction [n, d]; the  *)
(* rounding of double-precision arithmetic is visible only when a decimal  *)
(* difference equals a threshold exactly, and there the outcome of the     *)
(* comparison is an input of the call (the record fp), not a choice of the *)
(* model.  Explanation texts (display only) are not modelled.              *)
(***************************************************************************)
EXTENDS Integers, Sequences, FiniteSets, TLC

VARIABLES pc, expected, extracted, processingTimeMs, result, value, parsed,
          normalized, previous

\* the invocations of compareFields so far, each with its arguments and result
VARIABLES calls

\* The rate limiter (app/lib/rate-limit.server.ts): the module variables
\* ipTimestamps (a Map, here the sequence of its entries in insertion order)
\* and lastCleanup, the clock that Date.now() reads, and the calls of
\* checkRateLimit so far, each with its request, its time and its outcome.
VARIABLES clock, lastCleanup, ipTimestamps, history

engine == <<pc, expected, extracted, processingTimeMs, result, value, parsed,
            normalized, previous>>

limiter == <<clock, lastCleanup, ipTimestamps, history>>

\* processWithConcurrency (app/lib/utils.ts): its arguments items and limit,
\* its locals index, results and workers, the state of the promise it returned,
\* and for the record how often fn was called on each item and the calls of
\* fn that have completed, in the order of their completion.
VARIABLES items, limit, index, results, workers, promise, started, completions

pool == <<items, limit, index, results, workers, promise, started, completions>>

\* what a call of the engine neither reads nor writes
outside == <<calls, limiter, pool>>

vars == <<pc, expected, extracted, processingTimeMs, result, value, parsed,
          normalized, previous, outside>>

(***************************************************************************)
(* Options.                                                                *)
(***************************************************************************)
NULL == <<>>

Some(v) == <<v>>

IsNull(o) == Len(o) = 0

Get(o) == o[1]

(***************************************************************************)
(* Characters and the JavaScript string primitives the engine uses.        *)
(***************************************************************************)
UpperChars == "ABCDEFGHIJKLMNOPQRSTUVWXYZ"

LowerChars == "abcdefghijklmnopqrstuvwxyz"

DigitChars == "0123456789"

\* the character at position i, "" outside the string
CharAt(s, i) == IF 1 <= i /\ i <= Len(s) THEN SubSeq(s, i, i) ELSE ""

CharsOf(s) == { CharAt(s, k) : k \in 1..Len(s) }

UpperSet == CharsOf(UpperChars)

LowerSet == CharsOf(LowerChars)

DigitSet == CharsOf(DigitChars)

IndexIn(s, c) == CHOOSE k \in 1..Len(s) : CharAt(s, k) = c

\* \d
IsDigit(c) == c \in DigitSet

\* [a-z]
IsLowerLetter(c) == c \in LowerSet

\* \s (the white space the bounded alphabet holds)
IsSpace(c) == c \in {" ", "\t", "\n"}

DigitValue(c) == IndexIn(DigitChars, c) - 1

toLowerChar(c) ==
  IF c \in UpperSet THEN CharAt(LowerChars, IndexIn(UpperChars, c)) ELSE c

RECURSIVE ConcatMap(_, _, _, _)
\* F(s, lo) \o ... \o F(s, hi): a replacement made character by character
ConcatMap(F(_, _), s, lo, hi) ==
  IF lo > hi THEN ""
  ELSE IF lo = hi THEN F(s, lo)
  ELSE LET mid == (lo + hi) \div 2
       IN  ConcatMap(F, s, lo, mid) \o ConcatMap(F, s, mid + 1, hi)

\* String.prototype.toLowerCase
toLowerCase(s) == ConcatMap(LAMBDA t, i : toLowerChar(CharAt(t, i)), s, 1, Len(s))

RECURSIVE SkipSpaces(_, _)
\* the first position >= i that holds no white space (Len(s) + 1 at the end): \s*
SkipSpaces(s, i) ==
  IF i <= Len(s) /\ IsSpace(CharAt(s, i)) THEN SkipSpaces(s, i + 1) ELSE i

RECURSIVE LastNonSpace(_, _)
LastNonSpace(s, j) ==
  IF j >= 1 /\ IsSpace(CharAt(s, j)) THEN LastNonSpace(s, j - 1) ELSE j

\* String.prototype.trim
trim(s) == SubSeq(s, SkipSpaces(s, 1), LastNonSpace(s, Len(s)))

\* s.replace(/\s+/g, " "): the first character of a run of white space
\* becomes a space, the others vanish
collapseWhitespace(s) ==
  ConcatMap(LAMBDA t, i : IF ~IsSpace(CharAt(t, i)) THEN CharAt(t, i)
                          ELSE IF IsSpace(CharAt(t, i - 1)) THEN ""
                          ELSE " ",
            s, 1, Len(s))

\* String.prototype.includes
includes(s, sub) ==
  \E i \in 1..(Len(s) + 1) :
    /\ i + Len(sub) - 1 <= Len(s)
    /\ SubSeq(s, i, i + Len(sub) - 1) = sub

\* the literal word w at position i of s, letter case ignored (the /i flag)
WordAt(s, i, w) ==
  /\ i + Len(w) - 1 <= Len(s)
  /\ toLowerCase(SubSeq(s, i, i + Len(w) - 1)) = w

normalize(str) == collapseWhitespace(toLowerCase(trim(str)))

(***************************************************************************)
(* Numbers.  parseFloat of a decimal literal is the fraction n / d.        *)
(***************************************************************************)
RECURSIVE DigitsEnd(_, _)
\* the last position of the run of digits that starts at i (i - 1 if none): \d+
DigitsEnd(s, i) ==
  IF i <= Len(s) /\ IsDigit(CharAt(s, i)) THEN DigitsEnd(s, i + 1) ELSE i - 1

\* the last position of the match of \d+(?:\.\d+)? at position i, 0 if there
\* is none.  The match is greedy; the patterns below continue with \s*%,
\* \s*proof, \s*percent or $, none of which accepts a digit or a '.', so no
\* shorter match of the number can make a pattern succeed.
NumberEnd(s, i) ==
  IF ~IsDigit(CharAt(s, i)) THEN 0
  ELSE LET j == DigitsEnd(s, i)
       IN  IF CharAt(s, j + 1) = "." /\ IsDigit(CharAt(s, j + 2))
           THEN DigitsEnd(s, j + 2)
           ELSE j

RECURSIVE DigitsValue(_, _, _)
DigitsValue(s, i, acc) ==
  IF i > Len(s) THEN acc
  ELSE IF CharAt(s, i) = "." THEN DigitsValue(s, i + 1, acc)
  ELSE DigitsValue(s, i + 1, 10 * acc + DigitValue(CharAt(s, i)))

RECURSIVE PowerOfTen(_)
PowerOfTen(k) == IF k = 0 THEN 1 ELSE 10 * PowerOfTen(k - 1)

\* parseFloat of a text matched by \d+(?:\.\d+)?
parseFloat(s) ==
  LET j == DigitsEnd(s, 1)
  IN  [n |-> DigitsValue(s, 1, 0),
       d |-> IF j = Len(s) THEN 1 ELSE PowerOfTen(Len(s) - j - 1)]

Abs(x) == IF x < 0 THEN -x ELSE x

\* Math.abs(a - b)
AbsDiff(a, b) == [n |-> Abs(a.n * b.d - b.n * a.d), d |-> a.d * b.d]

\* -1, 0 or 1 as the fraction x is below, equal to or above 1 / k
CompareToFraction(x, k) ==
  IF x.d % k = 0 /\ x.n = x.d \div k THEN 0
  ELSE IF x.n <= (x.d - 1) \div k THEN -1
  ELSE 1

\* x < 1 / k in double precision; 'below' is what the rounding gives when the
\* decimal value of x is exactly 1 / k
fpLess(x, k, below) ==
  \/ CompareToFraction(x, k) = -1
  \/ CompareToFraction(x, k) = 0 /\ below

\* x > 1 / k in double precision; 'above' is what the rounding gives when the
\* decimal value of x is exactly 1 / k
fpGreater(x, k, above) ==
  \/ CompareToFraction(x, k) = 1
  \/ CompareToFraction(x, k) = 0 /\ above

\* value equality of two fractions
NumEq(a, b) == a.n * b.d = b.n * a.d

(***************************************************************************)
(* parseAlcoholContent: the four patterns, each tried at every start       *)
(* position from the left (an unanchored String.prototype.match).          *)
(***************************************************************************)
\* the first position >= i that holds c, 0 if there is none
IndexOfFrom(s, c, i) ==
  LET hits == { k \in i..Len(s) : CharAt(s, k) = c }
  IN  IF hits = {} THEN 0 ELSE CHOOSE k \in hits : \A h \in hits : k <= h

\* /(\d+(?:\.\d+)?)\s*%\s*(?:alc...)?[^(]*\((\d+(?:\.\d+)?)\s*proof\)/i at
\* position i.  The optional qualifier group and the \s* before it match only
\* characters that [^(]* matches too, so between the '%' and the '(' the
\* pattern accepts exactly the texts without a '('.
CombinedAt(s, i) ==
  LET e1 == NumberEnd(s, i)
      pct == SkipSpaces(s, e1 + 1)
      par == IndexOfFrom(s, "(", pct + 1)
      e2 == NumberEnd(s, par + 1)
      w == SkipSpaces(s, e2 + 1)
  IN  IF /\ e1 > 0
         /\ CharAt(s, pct) = "%"
         /\ par > 0
         /\ e2 > 0
         /\ WordAt(s, w, "proof")
         /\ CharAt(s, w + 5) = ")"
      THEN Some([g1 |-> SubSeq(s, i, e1), g2 |-> SubSeq(s, par + 1, e2)])
      ELSE NULL

\* /(\d+(?:\.\d+)?)\s*proof/i at position i
ProofAt(s, i) ==
  LET e1 == NumberEnd(s, i)
  IN  IF e1 > 0 /\ WordAt(s, SkipSpaces(s, e1 + 1), "proof")
      THEN Some([g1 |-> SubSeq(s, i, e1)])
      ELSE NULL

\* /(\d+(?:\.\d+)?)\s*(?:%|percent)\s*(?:alc...|abv)?/i at position i; the
\* optional tail changes neither whether the pattern matches nor group 1
PercentAt(s, i) ==
  LET e1 == NumberEnd(s, i)
      u == SkipSpaces(s, e1 + 1)
  IN  IF e1 > 0 /\ (CharAt(s, u) = "%" \/ WordAt(s, u, "percent"))
      THEN Some([g1 |-> SubSeq(s, i, e1)])
      ELSE NULL

\* /^(\d+(?:\.\d+)?)$/
BareAt(s, i) ==
  IF i = 1 /\ Len(s) > 0 /\ NumberEnd(s, 1) = Len(s)
  THEN Some([g1 |-> s])
  ELSE NULL

RECURSIVE FirstMatch(_, _, _)
\* String.prototype.match: the match at the leftmost start position
FirstMatch(At(_, _), s, i) ==
  IF i > Len(s) THEN NULL
  ELSE IF ~IsNull(At(s, i)) THEN At(s, i)
  ELSE FirstMatch(At, s, i + 1)

combinedMatch(trimmed) == FirstMatch(CombinedAt, trimmed, 1)

proofMatch(trimmed) == FirstMatch(ProofAt, trimmed, 1)

percentMatch(trimmed) == FirstMatch(PercentAt, trimmed, 1)

bareMatch(trimmed) == BareAt(trimmed, 1)

ParsedAlcoholContent(rawText, abv, proof, inferredFromBareNumber, notes) ==
  [rawText |-> rawText, abv |-> abv, proof |-> proof,
   inferredFromBareNumber |-> inferredFromBareNumber, notes |-> notes]

Note(text, level) == [text |-> text, level |-> level]

\* Mutant of combinedResult: the cross-check tolerates a whole point of proof.
combinedResultWholeTolerance(trimmed, abv, proof, roundsAbove) ==
  ParsedAlcoholContent(trimmed, Some(abv), Some(proof), FALSE,
    IF fpGreater(AbsDiff(proof, [n |-> abv.n * 2, d |-> abv.d]), 1, roundsAbove)
    THEN <<Note("Proof doesn't match expected 2xABV", "caution")>>
    ELSE <<>>)

\* the result of the combined pattern.  roundsAbove: the outcome of
\* Math.abs(proof - expectedProof) > 0.1 when the decimal difference is
\* exactly 0.1
combinedResult(trimmed, abv, proof, roundsAbove) ==
  ParsedAlcoholContent(trimmed, Some(abv), Some(proof), FALSE,
    IF fpGreater(AbsDiff(proof, [n |-> abv.n * 2, d |-> abv.d]), 10, roundsAbove)
    THEN <<Note("Proof doesn't match expected 2xABV", "caution")>>
    ELSE <<>>)

\* Mutant of proofResult: a percent stated in the text is taken as the abv.
proofResultStatedPercent(trimmed, proof) ==
  ParsedAlcoholContent(trimmed,
    IF ~IsNull(percentMatch(trimmed)) THEN Some(parseFloat(Get(percentMatch(trimmed)).g1))
    ELSE Some([n |-> proof.n, d |-> proof.d * 2]),
    Some(proof), FALSE, <<Note("Converted Proof to % ABV", "info")>>)

\* the result of the proof-only pattern: abv = proof / 2
proofResult(trimmed, proof) ==
  ParsedAlcoholContent(trimmed, Some([n |-> proof.n, d |-> proof.d * 2]), Some(proof),
    FALSE, <<Note("Converted Proof to % ABV", "info")>>)

\* Mutant of parseMatched: the percent pattern is tried before the proof-only
\* pattern.
parseMatchedPercentFirst(trimmed, cm, pm, qm, bm, roundsAbove) ==
  IF ~IsNull(cm)
  THEN combinedResult(trimmed, parseFloat(Get(cm).g1), parseFloat(Get(cm).g2), roundsAbove)
  ELSE IF ~IsNull(qm)
       THEN ParsedAlcoholContent(trimmed, Some(parseFloat(Get(qm).g1)), NULL, FALSE, <<>>)
  ELSE IF ~IsNull(pm) THEN proofResult(trimmed, parseFloat(Get(pm).g1))
  ELSE IF ~IsNull(bm)
       THEN ParsedAlcoholContent(trimmed, Some(parseFloat(Get(bm).g1)), NULL, TRUE,
              <<Note("Interpreted as % ABV (no unit specified)", "caution")>>)
  ELSE ParsedAlcoholContent(trimmed, NULL, NULL, FALSE, <<>>)

\* the four patterns in the order the code tries them, the first match decides
parseMatched(trimmed, cm, pm, qm, bm, roundsAbove) ==
  IF ~IsNull(cm)
  THEN combinedResult(trimmed, parseFloat(Get(cm).g1), parseFloat(Get(cm).g2), roundsAbove)
  ELSE IF ~IsNull(pm) THEN proofResult(trimmed, parseFloat(Get(pm).g1))
  ELSE IF ~IsNull(qm)
       THEN ParsedAlcoholContent(trimmed, Some(parseFloat(Get(qm).g1)), NULL, FALSE, <<>>)
  ELSE IF ~IsNull(bm)
       THEN ParsedAlcoholContent(trimmed, Some(parseFloat(Get(bm).g1)), NULL, TRUE,
              <<Note("Interpreted as % ABV (no unit specified)", "caution")>>)
  ELSE ParsedAlcoholContent(trimmed, NULL, NULL, FALSE, <<>>)

parseTrimmed(trimmed, roundsAbove) ==
  parseMatched(trimmed, combinedMatch(trimmed), proofMatch(trimmed),
               percentMatch(trimmed), bareMatch(trimmed), roundsAbove)

parseAlcoholContent(val, roundsAbove) == parseTrimmed(trim(val), roundsAbove)

(***************************************************************************)
(* Field results and the nine comparators.                                 *)
(***************************************************************************)
FieldResult(name, key, exp, ext, status, normalization) ==
  [name |-> name, key |-> key, expected |-> exp, extracted |-> ext,
   status |-> status, normalization |-> normalization]

\* Mutant of Missing: only null counts as missing, the empty string does not.
MissingNullOnly(ext) == IsNull(ext)

\* !extracted, for a string | null
Missing(ext) == IsNull(ext) \/ Get(ext) = ""

\* Mutant of brandStatus: the comparison is case-insensitive from the start.
brandStatusCaseInsensitive(trimExpected, trimExtracted, normExpected, normExtracted) ==
  IF normExpected = normExtracted THEN "match"
  ELSE IF includes(normExtracted, normExpected) \/ includes(normExpected, normExtracted)
       THEN "warning"
  ELSE "mismatch"

brandStatus(trimExpected, trimExtracted, normExpected, normExtracted) ==
  IF trimExpected = trimExtracted THEN "match"
  ELSE IF normExpected = normExtracted THEN "warning"
  ELSE IF includes(normExtracted, normExpected) \/ includes(normExpected, normExtracted)
       THEN "warning"
  ELSE "mismatch"

compareBrandName(exp, ext) ==
  IF Missing(ext) THEN FieldResult("Brand Name", "brandName", exp, ext, "not_found", NULL)
  ELSE FieldResult("Brand Name", "brandName", exp, ext,
         brandStatus(collapseWhitespace(trim(exp)), collapseWhitespace(trim(Get(ext))),
                     normalize(exp), normalize(Get(ext))),
         NULL)

compareBeverageType(exp, ext) ==
  IF Missing(ext) THEN FieldResult("Beverage Type", "beverageType", exp, ext, "not_found", NULL)
  ELSE FieldResult("Beverage Type", "beverageType", exp, ext,
         IF normalize(exp) = normalize(Get(ext)) THEN "match" ELSE "mismatch", NULL)

compareClassType(exp, ext) ==
  IF Missing(ext) THEN FieldResult("Class/Type", "classType", exp, ext, "not_found", NULL)
  ELSE FieldResult("Class/Type", "classType", exp, ext,
         IF normalize(exp) = normalize(Get(ext)) THEN "match" ELSE "mismatch", NULL)

\* Mutant of alcoholStatus: the tolerance is 0.01.
alcoholStatusLooseTolerance(diff, inferred, below) ==
  IF ~fpLess(diff, 100, below) THEN "mismatch"
  ELSE IF inferred THEN "warning"
  ELSE "match"

\* both sides parsed: the numeric comparison and the bare-number escalation.
\* below: the outcome of diff < 0.001 when the decimal difference is exactly
\* 0.001
alcoholStatus(diff, inferred, below) ==
  IF ~fpLess(diff, 1000, below) THEN "mismatch"
  ELSE IF inferred THEN "warning"
  ELSE "match"

\* Mutant of compareParsedAbv: only a bare number on the extracted side
\* escalates.
compareParsedAbvExtractedOnly(exp, ext, expectedParsed, extractedParsed, diff, below) ==
  FieldResult("Alcohol Content", "alcoholContent", exp, ext,
    alcoholStatus(diff, extractedParsed.inferredFromBareNumber, below),
    Some([expectedParsed |-> expectedParsed, extractedParsed |-> extractedParsed,
          numericDiff |-> diff, diffUnit |-> "%"]))

compareParsedAbv(exp, ext, expectedParsed, extractedParsed, diff, below) ==
  FieldResult("Alcohol Content", "alcoholContent", exp, ext,
    alcoholStatus(diff,
                  \/ expectedParsed.inferredFromBareNumber
                  \/ extractedParsed.inferredFromBareNumber,
                  below),
    Some([expectedParsed |-> expectedParsed, extractedParsed |-> extractedParsed,
          numericDiff |-> diff, diffUnit |-> "%"]))

\* Mutant of compareParsed: the fallback compares the raw texts.
compareParsedRawEquality(exp, ext, expectedParsed, extractedParsed, below) ==
  IF IsNull(expectedParsed.abv) \/ IsNull(extractedParsed.abv)
  THEN FieldResult("Alcohol Content", "alcoholContent", exp, ext,
         IF exp = Get(ext) THEN "match" ELSE "mismatch", NULL)
  ELSE compareParsedAbv(exp, ext, expectedParsed, extractedParsed,
         AbsDiff(Get(expectedParsed.abv), Get(extractedParsed.abv)), below)

compareParsed(exp, ext, expectedParsed, extractedParsed, below) ==
  IF IsNull(expectedParsed.abv) \/ IsNull(extractedParsed.abv)
  THEN FieldResult("Alcohol Content", "alcoholContent", exp, ext,
         IF normalize(exp) = normalize(Get(ext)) THEN "match" ELSE "mismatch", NULL)
  ELSE compareParsedAbv(exp, ext, expectedParsed, extractedParsed,
         AbsDiff(Get(expectedParsed.abv), Get(extractedParsed.abv)), below)

\* fp.parseExpected, fp.parseExtracted: see combinedResult; fp.diff: see
\* alcoholStatus
compareAlcoholContent(exp, ext, fp) ==
  IF Missing(ext)
  THEN FieldResult("Alcohol Content", "alcoholContent", exp, ext, "not_found", NULL)
  ELSE compareParsed(exp, ext, parseAlcoholContent(exp, fp.parseExpected),
                     parseAlcoholContent(Get(ext), fp.parseExtracted), fp.diff)

\* s.replace(/(\d)([a-z])/g, "$1 $2")
spaceDigitLetter(s) ==
  ConcatMap(LAMBDA t, i : IF IsDigit(CharAt(t, i)) /\ IsLowerLetter(CharAt(t, i + 1))
                          THEN CharAt(t, i) \o " "
                          ELSE CharAt(t, i),
            s, 1, Len(s))

\* Mutant of normalizeNetContents: no space is inserted between a digit and
\* a letter.
normalizeNetContentsNoSpace(str) == normalize(str)

normalizeNetContents(str) == spaceDigitLetter(normalize(str))

compareNetContents(exp, ext) ==
  IF Missing(ext) THEN FieldResult("Net Contents", "netContents", exp, ext, "not_found", NULL)
  ELSE FieldResult("Net Contents", "netContents", exp, ext,
         IF normalizeNetContents(exp) = normalizeNetContents(Get(ext))
         THEN "match" ELSE "mismatch", NULL)

compareProducerName(exp, ext) ==
  IF Missing(ext) THEN FieldResult("Producer Name", "producerName", exp, ext, "not_found", NULL)
  ELSE FieldResult("Producer Name", "producerName", exp, ext,
         IF normalize(exp) = normalize(Get(ext)) THEN "match" ELSE "mismatch", NULL)

ADDRESS_ABBREVIATIONS ==
  [st |-> "street", ave |-> "avenue", blvd |-> "boulevard", dr |-> "drive",
   ln |-> "lane", rd |-> "road", ct |-> "court", pl |-> "place", sq |-> "square",
   pkwy |-> "parkway", hwy |-> "highway", ste |-> "suite", apt |-> "apartment",
   fl |-> "floor", n |-> "north", s |-> "south", e |-> "east", w |-> "west",
   ne |-> "northeast", nw |-> "northwest", se |-> "southeast", sw |-> "southwest"]

\* every character of s that is in 'chars' replaced by 'by'
replaceChars(s, chars, by) ==
  ConcatMap(LAMBDA t, i : IF CharAt(t, i) \in chars THEN by ELSE CharAt(t, i),
            s, 1, Len(s))

RECURSIVE split(_, _)
\* s.split(" "), s read from position i
split(s, i) ==
  LET sp == IndexOfFrom(s, " ", i)
  IN  IF sp = 0 THEN <<SubSeq(s, i, Len(s))>>
      ELSE <<SubSeq(s, i, sp - 1)>> \o split(s, sp + 1)

RECURSIVE join(_, _)
\* words.join(sep)
join(words, sep) ==
  IF Len(words) = 0 THEN ""
  ELSE IF Len(words) = 1 THEN words[1]
  ELSE words[1] \o sep \o join(Tail(words), sep)

\* ADDRESS_ABBREVIATIONS[clean] || word, converted to text by join.  The table
\* is a plain object literal, so the lookup also finds what it inherits from
\* Object.prototype: of the lower-case words only 'constructor' and '__proto__'.
expandAbbreviation(word) ==
  LET clean == replaceChars(word, {"."}, "")
  IN  IF clean \in DOMAIN ADDRESS_ABBREVIATIONS THEN ADDRESS_ABBREVIATIONS[clean]
      ELSE IF clean = "constructor" THEN "function Object() { [native code] }"
      ELSE IF clean = "__proto__" THEN "[object Object]"
      ELSE word

expandAll(words) == [k \in 1..Len(words) |-> expandAbbreviation(words[k])]

normalizeAddress(addr) ==
  join(expandAll(split(trim(collapseWhitespace(
         replaceChars(normalize(addr), {".", ",", ";"}, " "))), 1)), " ")

\* the elements of a sequence, as a set: new Set(words)
SetOf(words) == { words[k] : k \in 1..Len(words) }

\* Mutant of missingParts: a part counts as present when some extracted word
\* contains it.
missingPartsSubstring(expectedParts, extractedWords) ==
  SelectSeq(expectedParts, LAMBDA part : ~\E w \in extractedWords : includes(w, part))

\* Mutant of missingParts: the comparison goes both ways, an extracted word
\* longer than one character that is no expected part counts as missing too.
missingPartsBothWays(expectedParts, extractedWords) ==
  SelectSeq(expectedParts, LAMBDA part : part \notin extractedWords)
  \o [k \in 1..Cardinality({ w \in extractedWords :
                                Len(w) > 1 /\ w \notin SetOf(expectedParts) })
        |-> "unexpected"]

\* expectedParts.filter((part) => !extractedWords.has(part))
missingParts(expectedParts, extractedWords) ==
  SelectSeq(expectedParts, LAMBDA part : part \notin extractedWords)

addressStatus(normExpected, normExtracted, missing) ==
  IF normExpected = normExtracted THEN "match"
  ELSE IF Len(missing) = 0 THEN "match"
  ELSE IF Len(missing) <= 2 THEN "warning"
  ELSE "mismatch"

compareNormalizedAddress(normExpected, normExtracted) ==
  addressStatus(normExpected, normExtracted,
    missingParts(SelectSeq(split(normExpected, 1), LAMBDA p : Len(p) > 1),
                 SetOf(split(normExtracted, 1))))

compareProducerAddress(exp, ext) ==
  IF Missing(ext)
  THEN FieldResult("Producer Address", "producerAddress", exp, ext, "not_found", NULL)
  ELSE FieldResult("Producer Address", "producerAddress", exp, ext,
         compareNormalizedAddress(normalizeAddress(exp), normalizeAddress(Get(ext))),
         NULL)

COUNTRY_PREFIXES == <<"product of", "made in", "produced in", "imported from">>

\* normalize(s).replace(/^(product of|made in|produced in|imported from)\s+/i, "").trim()
extractCountry(s) ==
  LET n == normalize(s)
      hits == { k \in 1..Len(COUNTRY_PREFIXES) :
                  /\ WordAt(n, 1, COUNTRY_PREFIXES[k])
                  /\ IsSpace(CharAt(n, Len(COUNTRY_PREFIXES[k]) + 1)) }
  IN  IF hits = {} THEN trim(n)
      ELSE LET k == CHOOSE h \in hits : \A g \in hits : h <= g
           IN  trim(SubSeq(n, SkipSpaces(n, Len(COUNTRY_PREFIXES[k]) + 1), Len(n)))

\* Mutant of compareCountryOfOrigin: the phrase is stripped from the extracted
\* text only.
compareCountryOfOriginExtractedOnly(exp, ext) ==
  IF Missing(ext)
  THEN FieldResult("Country of Origin", "countryOfOrigin", exp, ext, "not_found", NULL)
  ELSE FieldResult("Country of Origin", "countryOfOrigin", exp, ext,
         IF normalize(exp) = extractCountry(Get(ext)) THEN "match" ELSE "mismatch",
         NULL)

compareCountryOfOrigin(exp, ext) ==
  IF Missing(ext)
  THEN FieldResult("Country of Origin", "countryOfOrigin", exp, ext, "not_found", NULL)
  ELSE FieldResult("Country of Origin", "countryOfOrigin", exp, ext,
         IF extractCountry(exp) = extractCountry(Get(ext)) THEN "match" ELSE "mismatch",
         NULL)

\* Mutant of formattingIssues: a flag that is not true counts as an issue,
\* null included.
formattingIssuesNullCounts(allCaps, bold) ==
  (IF allCaps # Some(TRUE)
   THEN <<"\"GOVERNMENT WARNING:\" prefix should be in ALL CAPS">> ELSE <<>>)
  \o (IF bold # Some(TRUE)
      THEN <<"Government warning text does not appear to be bold">> ELSE <<>>)

formattingIssues(allCaps, bold) ==
  (IF allCaps = Some(FALSE)
   THEN <<"\"GOVERNMENT WARNING:\" prefix should be in ALL CAPS">> ELSE <<>>)
  \o (IF bold = Some(FALSE)
      THEN <<"Government warning text does not appear to be bold">> ELSE <<>>)

\* Mutant of warningStatus: a formatting issue is a mismatch.
warningStatusFormattingMismatch(normExpected, normExtracted, allCaps, bold) ==
  IF normExpected # normExtracted THEN "mismatch"
  ELSE IF Len(formattingIssues(allCaps, bold)) > 0 THEN "mismatch"
  ELSE "match"

warningStatus(normExpected, normExtracted, allCaps, bold) ==
  IF normExpected # normExtracted THEN "mismatch"
  ELSE IF Len(formattingIssues(allCaps, bold)) > 0 THEN "warning"
  ELSE "match"

compareGovernmentWarning(exp, ext, allCaps, bold) ==
  IF Missing(ext)
  THEN FieldResult("Government Warning", "governmentWarning", exp, ext, "not_found", NULL)
  ELSE FieldResult("Government Warning", "governmentWarning", exp, ext,
         warningStatus(collapseWhitespace(trim(exp)), collapseWhitespace(trim(Get(ext))),
                       allCaps, bold),
         NULL)

(***************************************************************************)
(* The government-warning compliance check and the aggregator.             *)
(***************************************************************************)
\* The fixed standard text (app/lib/constants.ts).
STANDARD_GOV_WARNING ==
  "GOVERNMENT WARNING: (1) According to the Surgeon General, women should not drink alcoholic beverages during pregnancy because of the risk of birth defects. (2) Consumption of alcoholic beverages impairs your ability to drive a car or operate machinery, and may cause health problems."

ISSUE_NOT_FOUND == "Government warning not found on label"

ISSUE_TEXT == "Warning text does not match the required TTB standard text"

ISSUE_CASE ==
  "Warning text matches but has case differences - \"GOVERNMENT WARNING\" prefix must be in ALL CAPS"

ISSUE_ALL_CAPS == "\"GOVERNMENT WARNING:\" must appear in ALL CAPS per 27 CFR 16.22"

ISSUE_BOLD ==
  "\"GOVERNMENT WARNING:\" should appear in bold type per 27 CFR 16.22 (verify manually - bold detection from images may be imprecise)"

normStandard == collapseWhitespace(trim(STANDARD_GOV_WARNING))

normStandardLower == toLowerCase(normStandard)

\* Mutant of complianceIssues: a text that matches up to case raises no issue.
complianceIssuesNoCaseIssue(normExtracted, textMatch, allCapsCorrect, boldCorrect) ==
  (IF ~textMatch THEN <<ISSUE_TEXT>> ELSE <<>>)
  \o (IF allCapsCorrect = Some(FALSE) THEN <<ISSUE_ALL_CAPS>> ELSE <<>>)
  \o (IF boldCorrect = Some(FALSE) THEN <<ISSUE_BOLD>> ELSE <<>>)

complianceIssues(normExtracted, textMatch, allCapsCorrect, boldCorrect) ==
  (IF ~textMatch THEN <<ISSUE_TEXT>>
   ELSE IF normExtracted # normStandard THEN <<ISSUE_CASE>>
   ELSE <<>>)
  \o (IF allCapsCorrect = Some(FALSE) THEN <<ISSUE_ALL_CAPS>> ELSE <<>>)
  \o (IF boldCorrect = Some(FALSE) THEN <<ISSUE_BOLD>> ELSE <<>>)

checkNormalizedWarning(ext, normExtracted, textMatch) ==
  [textMatch |-> textMatch,
   allCapsCorrect |-> ext.governmentWarningAllCaps,
   boldCorrect |-> ext.governmentWarningBold,
   extractedText |-> ext.governmentWarning,
   issues |-> complianceIssues(normExtracted, textMatch, ext.governmentWarningAllCaps,
                               ext.governmentWarningBold)]

checkWarningText(ext, normExtracted) ==
  checkNormalizedWarning(ext, normExtracted, toLowerCase(normExtracted) = normStandardLower)

\* Mutant of checkGovernmentWarningCompliance: only a null warning is missing,
\* the empty string is checked like a text.
checkGovernmentWarningComplianceNullOnly(ext) ==
  IF IsNull(ext.governmentWarning)
  THEN [textMatch |-> FALSE, allCapsCorrect |-> NULL, boldCorrect |-> NULL,
        extractedText |-> NULL, issues |-> <<ISSUE_NOT_FOUND>>]
  ELSE checkWarningText(ext, collapseWhitespace(trim(Get(ext.governmentWarning))))

checkGovernmentWarningCompliance(ext) ==
  IF Missing(ext.governmentWarning)
  THEN [textMatch |-> FALSE, allCapsCorrect |-> NULL, boldCorrect |-> NULL,
        extractedText |-> NULL, issues |-> <<ISSUE_NOT_FOUND>>]
  ELSE checkWarningText(ext, collapseWhitespace(trim(Get(ext.governmentWarning))))

\* whether some element of the sequence satisfies P: Array.prototype.some
some(seq, P(_)) == \E k \in 1..Len(seq) : P(seq[k])

\* Mutant of isAdvisory: no issue is an advisory.
isAdvisoryNever(issue) == FALSE

\* i.includes("verify manually"), for the issue texts of the compliance check
isAdvisory(issue) == includes(issue, "verify manually")

\* Mutant of overallStatusOf: an advisory issue counts like a hard issue.
overallStatusAdvisoryCounts(isAlcoholLabel, fields, governmentWarningCheck) ==
  IF ~isAlcoholLabel THEN "rejected"
  ELSE IF some(fields, LAMBDA f : f.status = "mismatch") THEN "rejected"
  ELSE IF some(fields, LAMBDA f : f.status = "warning" \/ f.status = "not_found")
       THEN "needs_review"
  ELSE IF /\ ~IsNull(governmentWarningCheck)
          /\ Len(Get(governmentWarningCheck).issues) > 0
       THEN "needs_review"
  ELSE IF Len(fields) = 0 THEN "needs_review"
  ELSE "approved"

\* Mutant of overallStatusOf: a warning or a missing field is looked for before
\* a mismatch.
overallStatusWarningFirst(isAlcoholLabel, fields, governmentWarningCheck) ==
  IF ~isAlcoholLabel THEN "rejected"
  ELSE IF some(fields, LAMBDA f : f.status = "warning" \/ f.status = "not_found")
       THEN "needs_review"
  ELSE IF some(fields, LAMBDA f : f.status = "mismatch") THEN "rejected"
  ELSE IF /\ ~IsNull(governmentWarningCheck)
          /\ some(Get(governmentWarningCheck).issues, LAMBDA i : ~isAdvisory(i))
       THEN "needs_review"
  ELSE IF Len(fields) = 0 THEN "needs_review"
  ELSE "approved"

\* Mutant of overallStatusOf: the rule for an empty list of fields is missing.
overallStatusNoEmptyRule(isAlcoholLabel, fields, governmentWarningCheck) ==
  IF ~isAlcoholLabel THEN "rejected"
  ELSE IF some(fields, LAMBDA f : f.status = "mismatch") THEN "rejected"
  ELSE IF some(fields, LAMBDA f : f.status = "warning" \/ f.status = "not_found")
       THEN "needs_review"
  ELSE IF /\ ~IsNull(governmentWarningCheck)
          /\ some(Get(governmentWarningCheck).issues, LAMBDA i : ~isAdvisory(i))
       THEN "needs_review"
  ELSE "approved"

\* Mutant of overallStatusOf: only a mismatch of the brand name rejects; a
\* mismatch of another field asks for a review.
overallStatusBrandDecides(isAlcoholLabel, fields, governmentWarningCheck) ==
  IF ~isAlcoholLabel THEN "rejected"
  ELSE IF some(fields, LAMBDA f : f.status = "mismatch" /\ f.key = "brandName")
       THEN "rejected"
  ELSE IF some(fields, LAMBDA f : f.status # "match") THEN "needs_review"
  ELSE IF /\ ~IsNull(governmentWarningCheck)
          /\ some(Get(governmentWarningCheck).issues, LAMBDA i : ~isAdvisory(i))
       THEN "needs_review"
  ELSE IF Len(fields) = 0 THEN "needs_review"
  ELSE "approved"

\* Mutant of overallStatusOf: the compliance check is not consulted.
overallStatusFieldsOnly(isAlcoholLabel, fields, governmentWarningCheck) ==
  IF ~isAlcoholLabel THEN "rejected"
  ELSE IF some(fields, LAMBDA f : f.status = "mismatch") THEN "rejected"
  ELSE IF some(fields, LAMBDA f : f.status = "warning" \/ f.status = "not_found")
       THEN "needs_review"
  ELSE IF Len(fields) = 0 THEN "needs_review"
  ELSE "approved"

overallStatusOf(isAlcoholLabel, fields, governmentWarningCheck) ==
  IF ~isAlcoholLabel THEN "rejected"
  ELSE IF some(fields, LAMBDA f : f.status = "mismatch") THEN "rejected"
  ELSE IF some(fields, LAMBDA f : f.status = "warning" \/ f.status = "not_found")
       THEN "needs_review"
  ELSE IF /\ ~IsNull(governmentWarningCheck)
          /\ some(Get(governmentWarningCheck).issues, LAMBDA i : ~isAdvisory(i))
       THEN "needs_review"
  ELSE IF Len(fields) = 0 THEN "needs_review"
  ELSE "approved"

\* Mutant of compareEach: a field is compared when a value was extracted for
\* it, whether or not one is expected.
compareEachExtracted(exp, ext, fp) ==
  (IF ~Missing(ext.beverageType)
   THEN <<compareBeverageType(exp.beverageType, ext.beverageType)>> ELSE <<>>)
  \o (IF ~Missing(ext.brandName)
      THEN <<compareBrandName(exp.brandName, ext.brandName)>> ELSE <<>>)
  \o (IF ~Missing(ext.classType)
      THEN <<compareClassType(exp.classType, ext.classType)>> ELSE <<>>)
  \o (IF ~Missing(ext.alcoholContent)
      THEN <<compareAlcoholContent(exp.alcoholContent, ext.alcoholContent, fp)>>
      ELSE <<>>)
  \o (IF ~Missing(ext.netContents)
      THEN <<compareNetContents(exp.netContents, ext.netContents)>> ELSE <<>>)
  \o (IF ~Missing(ext.producerName)
      THEN <<compareProducerName(exp.producerName, ext.producerName)>> ELSE <<>>)
  \o (IF ~Missing(ext.producerAddress)
      THEN <<compareProducerAddress(exp.producerAddress, ext.producerAddress)>>
      ELSE <<>>)
  \o (IF ~Missing(ext.countryOfOrigin)
      THEN <<compareCountryOfOrigin(exp.countryOfOrigin, ext.countryOfOrigin)>>
      ELSE <<>>)
  \o (IF ~Missing(ext.governmentWarning)
      THEN <<compareGovernmentWarning(exp.governmentWarning, ext.governmentWarning,
               ext.governmentWarningAllCaps, ext.governmentWarningBold)>>
      ELSE <<>>)

\* the comparators of the fields with an expected value, in the fixed order
compareEach(exp, ext, fp) ==
  (IF exp.beverageType # ""
   THEN <<compareBeverageType(exp.beverageType, ext.beverageType)>> ELSE <<>>)
  \o (IF exp.brandName # ""
      THEN <<compareBrandName(exp.brandName, ext.brandName)>> ELSE <<>>)
  \o (IF exp.classType # ""
      THEN <<compareClassType(exp.classType, ext.classType)>> ELSE <<>>)
  \o (IF exp.alcoholContent # ""
      THEN <<compareAlcoholContent(exp.alcoholContent, ext.alcoholContent, fp)>>
      ELSE <<>>)
  \o (IF exp.netContents # ""
      THEN <<compareNetContents(exp.netContents, ext.netContents)>> ELSE <<>>)
  \o (IF exp.producerName # ""
      THEN <<compareProducerName(exp.producerName, ext.producerName)>> ELSE <<>>)
  \o (IF exp.producerAddress # ""
      THEN <<compareProducerAddress(exp.producerAddress, ext.producerAddress)>>
      ELSE <<>>)
  \o (IF exp.countryOfOrigin # ""
      THEN <<compareCountryOfOrigin(exp.countryOfOrigin, ext.countryOfOrigin)>>
      ELSE <<>>)
  \o (IF exp.governmentWarning # ""
      THEN <<compareGovernmentWarning(exp.governmentWarning, ext.governmentWarning,
               ext.governmentWarningAllCaps, ext.governmentWarningBold)>>
      ELSE <<>>)

\* Mutant of VerificationResult: the notes of the label are left out of a
\* rejected result.
VerificationResultNotesDropped(ext, fields, governmentWarningCheck, timeMs) ==
  [overallStatus |-> overallStatusOf(ext.isAlcoholLabel, fields, governmentWarningCheck),
   isAlcoholLabel |-> ext.isAlcoholLabel,
   fields |-> fields,
   governmentWarningCheck |-> governmentWarningCheck,
   imageQuality |-> ext.imageQuality,
   confidence |-> ext.confidence,
   notes |-> IF ext.isAlcoholLabel THEN ext.notes ELSE <<>>,
   processingTimeMs |-> timeMs]

VerificationResult(ext, fields, governmentWarningCheck, timeMs) ==
  [overallStatus |-> overallStatusOf(ext.isAlcoholLabel, fields, governmentWarningCheck),
   isAlcoholLabel |-> ext.isAlcoholLabel,
   fields |-> fields,
   governmentWarningCheck |-> governmentWarningCheck,
   imageQuality |-> ext.imageQuality,
   confidence |-> ext.confidence,
   notes |-> ext.notes,
   processingTimeMs |-> timeMs]

\* Mutant of compareFields: the compliance check is run only when a warning
\* is expected.
compareFieldsCheckWhenExpected(exp, ext, timeMs, fp) ==
  VerificationResult(ext, compareEach(exp, ext, fp),
    IF ext.isAlcoholLabel /\ exp.governmentWarning # ""
    THEN Some(checkGovernmentWarningCompliance(ext)) ELSE NULL,
    timeMs)

compareFields(exp, ext, timeMs, fp) ==
  VerificationResult(ext, compareEach(exp, ext, fp),
    IF ext.isAlcoholLabel THEN Some(checkGovernmentWarningCompliance(ext)) ELSE NULL,
    timeMs)

(***************************************************************************)
(* The state machine: one call of an exported function at a time.  pc is   *)
(* "idle" between calls, "compared" after compareFields has returned and   *)
(* "parsed" after parseAlcoholContent has returned.                        *)
(***************************************************************************)
FieldOrder ==
  <<"beverageType", "brandName", "classType", "alcoholContent", "netContents",
    "producerName", "producerAddress", "countryOfOrigin", "governmentWarning">>

FieldKeys == { FieldOrder[k] : k \in 1..Len(FieldOrder) }

\* an application with no expected value (makeApplicationData() of the tests)
EmptyApplicationData == [f \in FieldKeys |-> ""]

\* a label on which nothing was detected (makeExtractedLabel() of the tests)
EmptyLabel ==
  [f \in FieldKeys |-> NULL] @@
  [governmentWarningAllCaps |-> NULL, governmentWarningBold |-> NULL,
   isAlcoholLabel |-> TRUE, imageQuality |-> "good", confidence |-> 95,
   notes |-> <<>>]

Init ==
  /\ pc = "idle"
  /\ expected = EmptyApplicationData
  /\ extracted = EmptyLabel
  /\ processingTimeMs = 0
  /\ result = NULL
  /\ value = ""
  /\ parsed = NULL
  /\ normalized = NULL
  /\ previous = NULL
  /\ calls = <<>>
  /\ clock = 0
  /\ lastCleanup = 0
  /\ ipTimestamps = <<>>
  /\ history = <<>>
  /\ items = <<>>
  /\ limit = 1
  /\ index = 0
  /\ results = <<>>
  /\ workers = <<>>
  /\ promise = "none"
  /\ started = <<>>
  /\ completions = <<>>

\* compareFields(exp, ext, timeMs) is called and returns
CompareFieldsCall(exp, ext, timeMs, fp) ==
  /\ pc = "idle"
  /\ pc' = "compared"
  /\ expected' = exp
  /\ extracted' = ext
  /\ processingTimeMs' = timeMs
  /\ result' = Some(compareFields(exp, ext, timeMs, fp))
  /\ UNCHANGED <<value, parsed, normalized, previous>>
  /\ UNCHANGED outside

\* compareFields is called a second time; the first call is remembered in
\* 'previous' so that the two results can be compared
CompareFieldsAgain(exp, ext, timeMs, fp) ==
  /\ pc = "compared"
  /\ IsNull(previous)
  /\ previous' = Some([expected |-> expected, extracted |-> extracted,
                       result |-> Get(result)])
  /\ expected' = exp
  /\ extracted' = ext
  /\ processingTimeMs' = timeMs
  /\ result' = Some(compareFields(exp, ext, timeMs, fp))
  /\ UNCHANGED <<pc, value, parsed, normalized>>
  /\ UNCHANGED outside

\* parseAlcoholContent(val) is called and returns
ParseAlcoholContentCall(val, roundsAbove) ==
  /\ pc = "idle"
  /\ pc' = "parsed"
  /\ value' = val
  /\ parsed' = Some(parseAlcoholContent(val, roundsAbove))
  /\ UNCHANGED <<expected, extracted, processingTimeMs, result, normalized, previous>>
  /\ UNCHANGED outside

\* normalizeAddress(addr) is called and returns
NormalizeAddressCall(addr) ==
  /\ pc = "idle"
  /\ pc' = "normalized"
  /\ value' = addr
  /\ normalized' = Some(normalizeAddress(addr))
  /\ UNCHANGED <<expected, extracted, processingTimeMs, result, parsed, previous>>
  /\ UNCHANGED outside

\* the caller drops the result; nothing of a call outlives it
Return ==
  /\ pc # "idle"
  /\ pc' = "idle"
  /\ expected' = EmptyApplicationData
  /\ extracted' = EmptyLabel
  /\ processingTimeMs' = 0
  /\ result' = NULL
  /\ value' = ""
  /\ parsed' = NULL
  /\ normalized' = NULL
  /\ previous' = NULL
  /\ UNCHANGED outside

(***************************************************************************)
(* Alcohol-content texts: numerals around a base ABV and twice that value, *)
(* in every notation the parser knows and some it does not.                *)
(***************************************************************************)
BaseAbv == 40

MaxOffset == 2

Digit(d) == CharAt(DigitChars, d + 1)

\* the decimal numeral of th / 1000, without trailing zeros
DecimalText(th) ==
  LET whole == th \div 1000
      frac == th % 1000
  IN  ToString(whole) \o
      (IF frac = 0 THEN ""
       ELSE IF frac % 100 = 0 THEN "." \o Digit(frac \div 100)
       ELSE IF frac % 10 = 0 THEN "." \o Digit(frac \div 100) \o Digit((frac \div 10) % 10)
       ELSE "." \o Digit(frac \div 100) \o Digit((frac \div 10) % 10) \o Digit(frac % 10))

\* ABV values a: the base, and up to MaxOffset thousandths, tenths above it
AbvThousandths ==
  { BaseAbv * 1000 + j : j \in 0..MaxOffset } \cup
  { BaseAbv * 1000 + 50 * j : j \in 0..MaxOffset }

\* proof values p: 2a for each a, and steps of a tenth above twice the base
ProofThousandths ==
  { 2 * a : a \in AbvThousandths } \cup
  { 2 * BaseAbv * 1000 + 100 * j : j \in 0..MaxOffset }

PercentQualifiers == {"%", "% ABV", " % Alc./Vol.", " percent alcohol by volume"}

ProofQualifiers == {" Proof", "proof"}

PercentText(a, q) == DecimalText(a) \o q

ProofText(p, q) == DecimalText(p) \o q

CombinedText(a, p) == DecimalText(a) \o "% Alc./Vol. (" \o DecimalText(p) \o " Proof)"

\* a percent and a proof value, the proof not in parentheses
MixedText(a, p) == DecimalText(a) \o "% ABV, " \o DecimalText(p) \o " Proof"

BareText(a, pad) == pad \o DecimalText(a) \o pad

PercentTexts == { PercentText(a, q) : a \in AbvThousandths, q \in PercentQualifiers }

ProofTexts == { ProofText(p, q) : p \in ProofThousandths, q \in ProofQualifiers }

CombinedTexts == { CombinedText(a, p) : a \in AbvThousandths, p \in ProofThousandths }

MixedTexts == { MixedText(BaseAbv * 1000, p) : p \in ProofThousandths }

BareTexts ==
  { BareText(a, "") : a \in AbvThousandths } \cup { BareText(BaseAbv * 1000, " ") }

UnparsedTexts ==
  { "unknown format xyz", " UNKNOWN  format XYZ", "ABV " \o DecimalText(BaseAbv * 1000),
    "forty percent", "80-proof", "4O%" }

AlcoholTexts ==
  PercentTexts \cup ProofTexts \cup CombinedTexts \cup MixedTexts \cup BareTexts
  \cup UnparsedTexts

\* the outcomes the cross-check of a text can round to: only a combined text
\* is cross-checked
CrossCheckOutcomes(t) == IF t \in CombinedTexts THEN BOOLEAN ELSE {FALSE}

\* compareFields with alcoholContent the only expected value
CompareAlcoholContent ==
  /\ pc = "idle"
  /\ \E e \in AlcoholTexts, x \in {Some(t) : t \in AlcoholTexts} \cup {NULL, Some("")} :
       \E pe \in CrossCheckOutcomes(e),
          px \in (IF Missing(x) THEN {FALSE} ELSE CrossCheckOutcomes(Get(x))),
          below \in BOOLEAN :
         CompareFieldsCall([EmptyApplicationData EXCEPT !.alcoholContent = e],
                           [EmptyLabel EXCEPT !.alcoholContent = x], 0,
                           [parseExpected |-> pe, parseExtracted |-> px, diff |-> below])

ParseAlcoholContent ==
  /\ pc = "idle"
  /\ \E v \in AlcoholTexts \cup {""} :
       \E roundsAbove \in CrossCheckOutcomes(v) : ParseAlcoholContentCall(v, roundsAbove)

NextAlcohol == CompareAlcoholContent \/ ParseAlcoholContent \/ Return

SpecAlcohol == Init /\ [][NextAlcohol]_vars

(***************************************************************************)
(* Whole records.  Each field has one expected sample and a list of        *)
(* extracted cases, the first of which matches it.  A record is built from *)
(* a choice per field: 0 leaves the field out of both records, -1 leaves   *)
(* it out of the expected record only, k >= 1 expects the sample and       *)
(* extracts case k.                                                        *)
(***************************************************************************)
OrdinaryFields == FieldKeys \ {"governmentWarning"}

ExpectedSample ==
  [beverageType |-> "wine", brandName |-> "Old Tom", classType |-> "Gin",
   alcoholContent |-> "40% ABV", netContents |-> "750 mL",
   producerName |-> "Acme Co", producerAddress |-> "12 Main St, Troy, NY",
   countryOfOrigin |-> "France"]

ExtractedCases ==
  [beverageType |-> <<Some("wine"), Some("beer"), NULL, Some("")>>,
   brandName |-> <<Some("Old Tom"), Some("OLD TOM"), Some("Old Tom Gin"),
                   Some("Acme"), NULL, Some("")>>,
   classType |-> <<Some(" gin"), Some("Rum"), NULL, Some("")>>,
   alcoholContent |-> <<Some("80 Proof"), Some("40"), Some("41%"),
                        Some("forty"), NULL, Some("")>>,
   netContents |-> <<Some("750ml"), Some("750"), NULL, Some("")>>,
   producerName |-> <<Some("ACME  CO"), Some("Acme"), NULL, Some("")>>,
   producerAddress |-> <<Some("Troy NY, 12 Main Street"), Some("12 Main St, Troy"),
                         Some("9 Elm Rd"), NULL, Some("")>>,
   countryOfOrigin |-> <<Some("Product of France"), Some("Spain"), NULL, Some("")>>]

\* the extracted warning with its two formatting flags; the first is compliant
WarningCases ==
  <<[text |-> Some(STANDARD_GOV_WARNING), allCaps |-> Some(TRUE), bold |-> Some(TRUE)],
    [text |-> Some(STANDARD_GOV_WARNING), allCaps |-> NULL, bold |-> NULL],
    [text |-> Some(STANDARD_GOV_WARNING), allCaps |-> Some(TRUE), bold |-> Some(FALSE)],
    [text |-> Some(STANDARD_GOV_WARNING), allCaps |-> Some(FALSE), bold |-> Some(TRUE)],
    [text |-> Some(toLowerCase(STANDARD_GOV_WARNING)), allCaps |-> Some(TRUE),
     bold |-> Some(TRUE)],
    [text |-> Some("Some other warning text"), allCaps |-> NULL, bold |-> NULL],
    [text |-> NULL, allCaps |-> NULL, bold |-> Some(FALSE)],
    [text |-> Some(""), allCaps |-> Some(TRUE), bold |-> Some(TRUE)]>>

NumCases(f) == Len(ExtractedCases[f])

MakeExpected(choice, warningExpected) ==
  [f \in FieldKeys |->
     IF f = "governmentWarning" THEN warningExpected
     ELSE IF choice[f] >= 1 THEN ExpectedSample[f] ELSE ""]

MakeExtracted(choice, w, isAlcoholLabel) ==
  [f \in FieldKeys |->
     IF f = "governmentWarning" THEN WarningCases[w].text
     ELSE IF choice[f] >= 1 THEN ExtractedCases[f][choice[f]]
     ELSE IF choice[f] = -1 THEN ExtractedCases[f][1]
     ELSE NULL] @@
  [governmentWarningAllCaps |-> WarningCases[w].allCaps,
   governmentWarningBold |-> WarningCases[w].bold,
   isAlcoholLabel |-> isAlcoholLabel, imageQuality |-> "good", confidence |-> 95,
   notes |-> <<>>]

NoRounding == [parseExpected |-> FALSE, parseExtracted |-> FALSE, diff |-> FALSE]

\* every subset of the fields expected, each expected field extracted with a
\* matching value, the others extracted or not
CompareSubsets ==
  /\ pc = "idle"
  /\ \E present \in SUBSET OrdinaryFields, stray \in BOOLEAN,
        warningExpected \in {"", STANDARD_GOV_WARNING}, isAlcoholLabel \in BOOLEAN :
       LET choice == [f \in OrdinaryFields |->
                        IF f \in present THEN 1 ELSE IF stray THEN -1 ELSE 0]
       IN  CompareFieldsCall(MakeExpected(choice, warningExpected),
                             MakeExtracted(choice, 1, isAlcoholLabel), 0, NoRounding)

\* the three fields with a warning tier and the warning, in every combination
\* of their cases
CompareStatuses ==
  /\ pc = "idle"
  /\ \E b \in 0..NumCases("brandName"), a \in 0..NumCases("alcoholContent"),
        d \in 0..NumCases("producerAddress"), w \in 1..Len(WarningCases),
        warningExpected \in {"", STANDARD_GOV_WARNING}, isAlcoholLabel \in BOOLEAN :
       LET choice == [f \in OrdinaryFields |->
                        IF f = "brandName" THEN b
                        ELSE IF f = "alcoholContent" THEN a
                        ELSE IF f = "producerAddress" THEN d
                        ELSE 0]
       IN  CompareFieldsCall(MakeExpected(choice, warningExpected),
                             MakeExtracted(choice, w, isAlcoholLabel), 0, NoRounding)

\* one expected field at a time, in each of its cases
CompareSingle ==
  /\ pc = "idle"
  /\ \E g \in OrdinaryFields, w \in 1..Len(WarningCases), isAlcoholLabel \in BOOLEAN :
       \E k \in 1..NumCases(g) :
         LET choice == [f \in OrdinaryFields |-> IF f = g THEN k ELSE 0]
         IN  CompareFieldsCall(MakeExpected(choice, ""),
                               MakeExtracted(choice, w, isAlcoholLabel), 0, NoRounding)

Next == CompareSubsets \/ CompareStatuses \/ CompareSingle \/ Return

Spec == Init /\ [][Next]_vars

(***************************************************************************)
(* Properties of compareFields.                                            *)
(***************************************************************************)
Compared == pc = "compared"

\* the result of the call that has returned
res == Get(result)

Statuses == { res.fields[k].status : k \in 1..Len(res.fields) }

\* the issues of the compliance check of the result (none when it is null)
Issues ==
  IF IsNull(res.governmentWarningCheck) THEN {}
  ELSE SetOf(Get(res.governmentWarningCheck).issues)

\* the field result for key f
FieldOf(f) == res.fields[CHOOSE k \in 1..Len(res.fields) : res.fields[k].key = f]

\* C1: the overall status is approved exactly when the label is an alcohol
\* label, at least one field was compared, every compared field is a match and
\* every issue of the compliance check contains 'verify manually'; otherwise
\* it is needs_review or rejected.
C1_ApprovedIff ==
  Compared =>
    /\ res.overallStatus \in {"approved", "needs_review", "rejected"}
    /\ res.overallStatus = "approved" <=>
         /\ extracted.isAlcoholLabel
         /\ Len(res.fields) >= 1
         /\ Statuses = {"match"}
         /\ \A i \in Issues : includes(i, "verify manually")

\* approved with two compared fields, although the compliance check raised the
\* bold advisory
C1_Witness ==
  /\ Compared
  /\ res.overallStatus = "approved"
  /\ Len(res.fields) >= 2
  /\ Issues = {ISSUE_BOLD}

\* C2: the overall status is rejected exactly when the label is not an alcohol
\* label or some compared field is a mismatch, whatever the other fields and
\* the compliance issues are.
C2_RejectedIff ==
  Compared =>
    (res.overallStatus = "rejected" <=>
       (~extracted.isAlcoholLabel \/ "mismatch" \in Statuses))

\* rejected for a mismatch that stands beside a warning, a missing field and a
\* hard compliance issue
C2_Witness ==
  /\ Compared
  /\ extracted.isAlcoholLabel
  /\ res.overallStatus = "rejected"
  /\ {"mismatch", "warning", "not_found"} \subseteq Statuses
  /\ ISSUE_TEXT \in Issues

\* C3: with no expected value at all and an alcohol label the overall status is
\* needs_review, also when the extracted warning is fully compliant.
C3_NothingComparedNeedsReview ==
  (Compared /\ expected = EmptyApplicationData /\ extracted.isAlcoholLabel) =>
    res.overallStatus = "needs_review"

\* nothing expected, a compliant warning extracted, no issue raised
C3_Witness ==
  /\ Compared
  /\ expected = EmptyApplicationData
  /\ extracted.isAlcoholLabel
  /\ extracted.governmentWarning = Some(STANDARD_GOV_WARNING)
  /\ Issues = {}
  /\ res.overallStatus = "needs_review"

\* C4: the fields of the result are, in the fixed order, exactly the fields
\* whose expected value is not empty, one result each, whatever was extracted.
C4_FieldsAreExpectedInOrder ==
  Compared =>
    [k \in 1..Len(res.fields) |-> res.fields[k].key]
      = SelectSeq(FieldOrder, LAMBDA f : expected[f] # "")

\* some fields compared, and a value extracted for a field that is not expected
C4_Witness ==
  /\ Compared
  /\ Len(res.fields) >= 2
  /\ Len(res.fields) < Len(FieldOrder)
  /\ \E f \in FieldKeys : expected[f] = "" /\ ~IsNull(extracted[f])

\* C5: whichever field it is, a non-empty expected value with a null or empty
\* extracted value gives the status not_found.
C5_MissingIsNotFound ==
  Compared =>
    \A f \in FieldKeys :
      (expected[f] # "" /\ (IsNull(extracted[f]) \/ extracted[f] = Some("")))
        => FieldOf(f).status = "not_found"

\* an expected brand name extracted as the empty string
C5_Witness ==
  /\ Compared
  /\ expected.brandName # ""
  /\ extracted.brandName = Some("")
  /\ FieldOf("brandName").status = "not_found"

(***************************************************************************)
(* Properties of the alcohol content.  The value a text states is known    *)
(* from the way the text was built, independently of the patterns: Abv2000 *)
(* is that value in units of 1/2000 %, so that half a proof is a whole     *)
(* number.                                                                 *)
(***************************************************************************)
Parsed == pc = "parsed"

\* texts with a unit: they parse to an ABV without inference
UnitTexts == PercentTexts \cup ProofTexts \cup CombinedTexts \cup MixedTexts

\* the texts that state a value, each with its value
StatedValues ==
  { <<PercentText(a, q), 2 * a>> : a \in AbvThousandths, q \in PercentQualifiers }
  \cup { <<CombinedText(a, p), 2 * a>> : a \in AbvThousandths, p \in ProofThousandths }
  \cup { <<BareText(a, ""), 2 * a>> : a \in AbvThousandths }
  \cup { <<BareText(BaseAbv * 1000, " "), 2 * BaseAbv * 1000>> }
  \cup { <<ProofText(p, q), p>> : p \in ProofThousandths, q \in ProofQualifiers }
  \cup { <<MixedText(BaseAbv * 1000, p), p>> : p \in ProofThousandths }

Abv2000(t) == (CHOOSE pair \in StatedValues : pair[1] = t)[2]

\* the distance of the stated values of the two sides, in units of 1/2000 %
Distance2000 == Abs(Abv2000(expected.alcoholContent) - Abv2000(Get(extracted.alcoholContent)))

\* an alcohol content was compared against a non-empty extracted text
AlcoholCompared ==
  /\ Compared
  /\ expected.alcoholContent # ""
  /\ ~Missing(extracted.alcoholContent)

alc == res.fields[1]

Thousandths(th) == [n |-> th, d |-> 1000]

\* C6: when both texts state an ABV with a unit, the status is match when the
\* values differ by less than 0.001 and mismatch when they differ by more,
\* never anything else; a proof-only text counts as half its proof, so
\* '<2a> Proof' against '<a>% ABV' is a match for every a; the difference and
\* the unit '%' are recorded in the normalization detail.
C6_NumericTolerance ==
  (/\ AlcoholCompared
   /\ expected.alcoholContent \in UnitTexts
   /\ Get(extracted.alcoholContent) \in UnitTexts)
  =>
    /\ alc.status \in {"match", "mismatch"}
    /\ Distance2000 < 2 => alc.status = "match"
    /\ Distance2000 > 2 => alc.status = "mismatch"
    /\ (\E a \in AbvThousandths, qp \in ProofQualifiers, qa \in PercentQualifiers :
          /\ expected.alcoholContent = ProofText(2 * a, qp)
          /\ Get(extracted.alcoholContent) = PercentText(a, qa))
       => alc.status = "match"
    /\ ~IsNull(alc.normalization)
    /\ Get(alc.normalization).diffUnit = "%"
    /\ NumEq(Get(alc.normalization).numericDiff, [n |-> Distance2000, d |-> 2000])

\* twice the base value in proof against the base value in percent: a match
\* with a recorded difference of 0 %
C6_Witness ==
  /\ AlcoholCompared
  /\ expected.alcoholContent = ProofText(2 * BaseAbv * 1000, " Proof")
  /\ extracted.alcoholContent = Some(PercentText(BaseAbv * 1000, "% ABV"))
  /\ alc.status = "match"
  /\ Get(alc.normalization).numericDiff.n = 0
  /\ Get(alc.normalization).diffUnit = "%"

\* C7: when the expected or the extracted text is a bare number, the status is
\* never match: it is warning when the other side states an ABV less than
\* 0.001 away and mismatch when it is further away or states none.
C7_BareNumberNeverMatches ==
  (/\ AlcoholCompared
   /\ \/ expected.alcoholContent \in BareTexts
      \/ Get(extracted.alcoholContent) \in BareTexts)
  =>
    /\ alc.status \in {"warning", "mismatch"}
    /\ IF \/ expected.alcoholContent \in UnparsedTexts
          \/ Get(extracted.alcoholContent) \in UnparsedTexts
       THEN alc.status = "mismatch"
       ELSE /\ Distance2000 < 2 => alc.status = "warning"
            /\ Distance2000 > 2 => alc.status = "mismatch"

\* a bare expected number against the same value in percent: a warning
C7_Witness ==
  /\ AlcoholCompared
  /\ expected.alcoholContent = BareText(BaseAbv * 1000, "")
  /\ extracted.alcoholContent = Some(PercentText(BaseAbv * 1000, "% ABV"))
  /\ alc.status = "warning"

par == Get(parsed)

InfoNotes == <<Note("Converted Proof to % ABV", "info")>>

BareNotes == <<Note("Interpreted as % ABV (no unit specified)", "caution")>>

IsNum(o, th) == ~IsNull(o) /\ NumEq(Get(o), Thousandths(th))

\* C8: the first of combined, proof-only, percent, bare number that matches
\* decides the result alone.  A combined text gives its two numbers; a text
\* with a proof outside parentheses, with or without a percent before it,
\* gives the proof, half of it as abv and one info note; a percent text gives
\* abv and a null proof; a bare number gives abv, a caution note and the only
\* inferredFromBareNumber = true; any other text gives nulls and no notes.
C8_FirstFormatDecides ==
  Parsed =>
    /\ \A a \in AbvThousandths, p \in ProofThousandths :
         value = CombinedText(a, p) =>
           IsNum(par.abv, a) /\ IsNum(par.proof, p) /\ ~par.inferredFromBareNumber
    /\ \A p \in ProofThousandths :
         (\/ \E q \in ProofQualifiers : value = ProofText(p, q)
          \/ value = MixedText(BaseAbv * 1000, p))
         => /\ IsNum(par.proof, p)
            /\ ~IsNull(par.abv) /\ NumEq(Get(par.abv), [n |-> p, d |-> 2000])
            /\ par.notes = InfoNotes
            /\ ~par.inferredFromBareNumber
    /\ \A a \in AbvThousandths, q \in PercentQualifiers :
         value = PercentText(a, q) =>
           /\ IsNum(par.abv, a) /\ IsNull(par.proof)
           /\ par.notes = <<>>
           /\ ~par.inferredFromBareNumber
    /\ \A a \in AbvThousandths, pad \in {"", " "} :
         value = BareText(a, pad) =>
           /\ IsNum(par.abv, a) /\ IsNull(par.proof)
           /\ par.notes = BareNotes
           /\ par.inferredFromBareNumber
    /\ value \in UnparsedTexts \cup {""} =>
           /\ IsNull(par.abv) /\ IsNull(par.proof)
           /\ par.notes = <<>>
           /\ ~par.inferredFromBareNumber
    /\ par.inferredFromBareNumber <=> value \in BareTexts

\* a percent followed by a proof that is not twice the percent: proof-only
\* decides, abv is half the proof and not the percent
C8_Witness ==
  /\ Parsed
  /\ value = MixedText(BaseAbv * 1000, 2 * BaseAbv * 1000 + 100)
  /\ IsNum(par.proof, 2 * BaseAbv * 1000 + 100)
  /\ ~NumEq(Get(par.abv), Thousandths(BaseAbv * 1000))
  /\ par.notes = InfoNotes

CautionNotes == <<Note("Proof doesn't match expected 2xABV", "caution")>>

\* C9: a combined 'a% ... (p Proof)' text parses to abv = a and proof = p
\* whatever p is; its notes are one caution note when |p - 2a| is more than 0.1
\* and empty when it is less; and compared against a percent text the status
\* follows the distance of a, not of p / 2.
C9_CombinedCrossCheck ==
  /\ Parsed =>
       \A a \in AbvThousandths, p \in ProofThousandths :
         value = CombinedText(a, p) =>
           /\ IsNum(par.abv, a) /\ IsNum(par.proof, p)
           /\ Abs(p - 2 * a) > 100 => par.notes = CautionNotes
           /\ Abs(p - 2 * a) < 100 => par.notes = <<>>
           /\ par.notes \in {<<>>, CautionNotes}
  /\ AlcoholCompared =>
       \A a \in AbvThousandths, p \in ProofThousandths, b \in AbvThousandths :
         (/\ expected.alcoholContent = CombinedText(a, p)
          /\ \E q \in PercentQualifiers :
               Get(extracted.alcoholContent) = PercentText(b, q))
         => /\ IsNum(Get(alc.normalization).expectedParsed.abv, a)
            /\ a = b => alc.status = "match"
            /\ Abs(a - b) > 1 => alc.status = "mismatch"

\* the base value with a proof 0.2 above twice the base: compared against the
\* base value in percent it is a match, with the caution note on the parse
C9_Witness ==
  /\ AlcoholCompared
  /\ expected.alcoholContent = CombinedText(BaseAbv * 1000, 2 * BaseAbv * 1000 + 200)
  /\ extracted.alcoholContent = Some(PercentText(BaseAbv * 1000, "%"))
  /\ alc.status = "match"
  /\ Get(alc.normalization).expectedParsed.notes = CautionNotes
  /\ IsNum(Get(alc.normalization).expectedParsed.proof, 2 * BaseAbv * 1000 + 200)

\* the pairs of texts that are equal after trim, lower-casing and whitespace
\* collapsing
SameNormalized(s, t) ==
  \/ s = t
  \/ {s, t} = {"unknown format xyz", " UNKNOWN  format XYZ"}

\* C10: when the expected or the extracted text states no ABV, the call still
\* returns a result: match when the two texts are equal after trim,
\* lower-casing and whitespace collapsing, mismatch otherwise, never warning,
\* and without normalization detail.
C10_UnparsedFallsBackToText ==
  (/\ AlcoholCompared
   /\ \/ expected.alcoholContent \in UnparsedTexts
      \/ Get(extracted.alcoholContent) \in UnparsedTexts)
  =>
    /\ ~IsNull(result)
    /\ alc.status =
         IF SameNormalized(expected.alcoholContent, Get(extracted.alcoholContent))
         THEN "match" ELSE "mismatch"
    /\ IsNull(alc.normalization)

\* two unparsed texts that differ in case and spacing only: a match
C10_Witness ==
  /\ AlcoholCompared
  /\ expected.alcoholContent = "unknown format xyz"
  /\ extracted.alcoholContent = Some(" UNKNOWN  format XYZ")
  /\ alc.status = "match"
  /\ IsNull(alc.normalization)

(***************************************************************************)
(* Single fields.  Each text of a field comes with what is known of it     *)
(* from the way it was written down, independently of the normalizers.     *)
(***************************************************************************)

\* one expected field f with text e against the extracted text x
CompareOne(f, e, x) ==
  CompareFieldsCall([EmptyApplicationData EXCEPT ![f] = e],
                    [EmptyLabel EXCEPT ![f] = Some(x)], 0, NoRounding)

\* the only compared field is f, and a non-empty text was extracted for it
OneCompared(f) ==
  /\ Compared
  /\ IsNull(previous)
  /\ Len(res.fields) = 1
  /\ res.fields[1].key = f
  /\ ~Missing(extracted[f])

\* Brand names.  trimmed: the class of texts equal after trimming; form: the
\* class of texts equal after trimming and collapsing whitespace; norm: the
\* class of texts equal after lower-casing too.
BrandCases ==
  { [text |-> "Old Tom",     trimmed |-> 1,  form |-> 1, norm |-> 1],
    [text |-> " Old Tom ",   trimmed |-> 1,  form |-> 1, norm |-> 1],
    [text |-> "Old  Tom",    trimmed |-> 2,  form |-> 1, norm |-> 1],
    [text |-> "OLD TOM",     trimmed |-> 3,  form |-> 2, norm |-> 1],
    [text |-> "old tom",     trimmed |-> 4,  form |-> 3, norm |-> 1],
    [text |-> "Old Tom Gin", trimmed |-> 5,  form |-> 4, norm |-> 2],
    [text |-> "Tom",         trimmed |-> 6,  form |-> 5, norm |-> 3],
    [text |-> "Acme",        trimmed |-> 7,  form |-> 6, norm |-> 4],
    [text |-> "ACME",        trimmed |-> 8,  form |-> 7, norm |-> 4],
    [text |-> "Told Tom",    trimmed |-> 9,  form |-> 8, norm |-> 5],
    [text |-> "Sunrise\tWines", trimmed |-> 10, form |-> 9, norm |-> 6],
    [text |-> "sunrise wines",  trimmed |-> 11, form |-> 10, norm |-> 6] }

\* <<a, b>>: the normalized text of class a is a substring of that of class b
BrandContained == { <<1, 2>>, <<3, 1>>, <<3, 2>>, <<1, 5>>, <<3, 5>> }

BrandTexts == { c.text : c \in BrandCases }

BrandCase(t) == CHOOSE c \in BrandCases : c.text = t

CompareBrandName ==
  /\ pc = "idle"
  /\ \E e \in BrandTexts, x \in BrandTexts : CompareOne("brandName", e, x)

BrandCompared ==
  /\ OneCompared("brandName")
  /\ expected.brandName \in BrandTexts
  /\ Get(extracted.brandName) \in BrandTexts

\* the tiers below the first one of the ladder
BrandLowerTiers(e, x) ==
  IF e.norm = x.norm THEN "warning"
  ELSE IF <<e.norm, x.norm>> \in BrandContained \/ <<x.norm, e.norm>> \in BrandContained
       THEN "warning"
  ELSE "mismatch"

\* C11 (as amended): the brand name is a match when the two texts are equal
\* after trimming and collapsing whitespace, case preserved; else a warning
\* when they are equal after lower-casing too; else a warning when one
\* normalized text contains the other; else a mismatch.  A case-only
\* difference is a warning.
C11_BrandLadder ==
  BrandCompared =>
    res.fields[1].status =
      IF BrandCase(expected.brandName).form = BrandCase(Get(extracted.brandName)).form
      THEN "match"
      ELSE BrandLowerTiers(BrandCase(expected.brandName),
                           BrandCase(Get(extracted.brandName)))

\* a case-only difference gives a warning
C11_Witness ==
  /\ BrandCompared
  /\ expected.brandName = "Old Tom"
  /\ extracted.brandName = Some("OLD TOM")
  /\ res.fields[1].status = "warning"

\* C11 as stated: match only when the two texts are equal after trimming.
C11_AsStated ==
  BrandCompared =>
    res.fields[1].status =
      IF BrandCase(expected.brandName).trimmed
           = BrandCase(Get(extracted.brandName)).trimmed
      THEN "match"
      ELSE BrandLowerTiers(BrandCase(expected.brandName),
                           BrandCase(Get(extracted.brandName)))

\* Texts of the fields compared by normalized equality.  norm: the class of
\* texts equal after trimming, lower-casing and collapsing whitespace.
SimpleCases ==
  { [text |-> "Gin",               norm |-> 1],
    [text |-> " gin",              norm |-> 1],
    [text |-> "GIN",               norm |-> 1],
    [text |-> "London  Dry Gin",   norm |-> 2],
    [text |-> "london dry gin",    norm |-> 2],
    [text |-> "Rum",               norm |-> 3],
    [text |-> "wine",              norm |-> 4],
    [text |-> "Wine ",             norm |-> 4],
    [text |-> "Product of France", norm |-> 5],
    [text |-> "France",            norm |-> 6] }

SimpleFields == {"classType", "producerName", "beverageType"}

SimpleTexts == { c.text : c \in SimpleCases }

SimpleCase(t) == CHOOSE c \in SimpleCases : c.text = t

CompareSimpleField ==
  /\ pc = "idle"
  /\ \E f \in SimpleFields, e \in SimpleTexts, x \in SimpleTexts : CompareOne(f, e, x)

\* Country names, and texts that are no phrase followed by a name.  name: the
\* class of names equal after normalization.
CountryCases ==
  { [text |-> "France",           name |-> 1],
    [text |-> "FRANCE",           name |-> 1],
    [text |-> "france ",          name |-> 1],
    [text |-> "Spain",            name |-> 2],
    [text |-> "United  States",   name |-> 3],
    [text |-> "united states",    name |-> 3],
    [text |-> "Wine of France",   name |-> 4],
    [text |-> "Product ofFrance", name |-> 5] }

\* the four phrases as they may be written
CountryPhrases == {"Product of", "product of", "MADE IN", "Produced In", "Imported  From"}

PhraseText(p, c) == p \o " " \o c

\* every text of a country with the class of its name
CountryNamed ==
  { <<c.text, c.name>> : c \in CountryCases }
  \cup { <<PhraseText(p, c.text), c.name>> : p \in CountryPhrases, c \in CountryCases }

CountryTexts == { pair[1] : pair \in CountryNamed }

CountryName(t) == (CHOOSE pair \in CountryNamed : pair[1] = t)[2]

CompareCountryOfOrigin ==
  /\ pc = "idle"
  /\ \E e \in CountryTexts, x \in CountryTexts : CompareOne("countryOfOrigin", e, x)

\* C12: classType, producerName and beverageType are a match when the two
\* texts are equal after normalization and a mismatch otherwise;
\* countryOfOrigin likewise after one leading 'product of', 'made in',
\* 'produced in' or 'imported from' is stripped from either side, so a name
\* against the same name behind a phrase is a match in both directions.
C12_NormalizedEquality ==
  /\ \A f \in SimpleFields :
       (/\ OneCompared(f)
        /\ expected[f] \in SimpleTexts
        /\ Get(extracted[f]) \in SimpleTexts)
       => res.fields[1].status =
            IF SimpleCase(expected[f]).norm = SimpleCase(Get(extracted[f])).norm
            THEN "match" ELSE "mismatch"
  /\ (/\ OneCompared("countryOfOrigin")
      /\ expected.countryOfOrigin \in CountryTexts
      /\ Get(extracted.countryOfOrigin) \in CountryTexts)
     => /\ res.fields[1].status =
             IF CountryName(expected.countryOfOrigin)
                  = CountryName(Get(extracted.countryOfOrigin))
             THEN "match" ELSE "mismatch"
        /\ \A c \in CountryCases, p \in CountryPhrases :
             \/ /\ expected.countryOfOrigin = c.text
                /\ Get(extracted.countryOfOrigin) = PhraseText(p, c.text)
             \/ /\ expected.countryOfOrigin = PhraseText(p, c.text)
                /\ Get(extracted.countryOfOrigin) = c.text
             => res.fields[1].status = "match"

\* the phrase on the expected side only: a match
C12_Witness ==
  /\ OneCompared("countryOfOrigin")
  /\ expected.countryOfOrigin = PhraseText("Imported  From", "France")
  /\ extracted.countryOfOrigin = Some("FRANCE")
  /\ res.fields[1].status = "match"

\* Net contents: a number, then a unit after no, one or two spaces, or no
\* unit at all.  unit: the class of the spellings of one unit, 0 for none.
NetNumbers == {"750", "1.5", "1500"}

NetUnits ==
  { [text |-> "mL", unit |-> 1], [text |-> "ml", unit |-> 1], [text |-> "ML", unit |-> 1],
    [text |-> "L", unit |-> 2], [text |-> "l", unit |-> 2] }

NetText(number, gap, unitText) == number \o gap \o unitText

\* every text with its number and the class of its unit
NetWritten ==
  { <<NetText(n, g, u.text), n, u.unit>> :
      n \in NetNumbers, g \in {"", " ", "  "}, u \in NetUnits }
  \cup { <<n, n, 0>> : n \in NetNumbers }

NetTexts == { w[1] : w \in NetWritten }

NetOf(t) == CHOOSE w \in NetWritten : w[1] = t

CompareNetContents ==
  /\ pc = "idle"
  /\ \E e \in NetTexts, x \in NetTexts : CompareOne("netContents", e, x)

AddressCases ==
  { [text |-> "12 Main St, Troy, NY",
     tokens |-> <<"12", "main", "street", "troy", "ny">>],
    [text |-> "12 MAIN ST. TROY; NY",
     tokens |-> <<"12", "main", "street", "troy", "ny">>],
    [text |-> "Troy NY, 12 Main Street",
     tokens |-> <<"troy", "ny", "12", "main", "street">>],
    [text |-> "12 Main St, Troy",
     tokens |-> <<"12", "main", "street", "troy">>],
    [text |-> "12 Main St",
     tokens |-> <<"12", "main", "street">>],
    [text |-> "12 Mainstream St, Troy, NY",
     tokens |-> <<"12", "mainstream", "street", "troy", "ny">>],
    [text |-> "5 N Main St",
     tokens |-> <<"5", "north", "main", "street">>],
    [text |-> "N Main St",
     tokens |-> <<"north", "main", "street">>],
    [text |-> "7 Main St N",
     tokens |-> <<"7", "main", "street", "north">>],
    [text |-> "123 Main Street, Springfield, IL",
     tokens |-> <<"123", "main", "street", "springfield", "il">>],
    [text |-> "456 Mainstream Blvd, Springfield, IL",
     tokens |-> <<"456", "mainstream", "boulevard", "springfield", "il">>],
    [text |-> "9 Elm Rd",
     tokens |-> <<"9", "elm", "road">>] }

AddressTexts == { c.text : c \in AddressCases }

AddressTokens(t) == (CHOOSE c \in AddressCases : c.text = t).tokens

CompareProducerAddress ==
  /\ pc = "idle"
  /\ \E e \in AddressTexts, x \in AddressTexts : CompareOne("producerAddress", e, x)

\* the number of tokens of 'tokens' longer than one character that are no
\* element of 'words'
MissingCount(tokens, words) ==
  Cardinality({ k \in 1..Len(tokens) : Len(tokens[k]) > 1 /\ tokens[k] \notin words })

AddressLadder(expectedTokens, extractedTokens) ==
  IF expectedTokens = extractedTokens THEN "match"
  ELSE IF MissingCount(expectedTokens, SetOf(extractedTokens)) = 0 THEN "match"
  ELSE IF MissingCount(expectedTokens, SetOf(extractedTokens)) <= 2 THEN "warning"
  ELSE "mismatch"

AddressCompared ==
  /\ OneCompared("producerAddress")
  /\ expected.producerAddress \in AddressTexts
  /\ Get(extracted.producerAddress) \in AddressTexts

\* C14: equal normalized addresses are a match; otherwise, with m the number
\* of expected tokens longer than one character that are no whole token of the
\* extracted address, m = 0 is a match, m = 1 or 2 a warning and m >= 3 a
\* mismatch.  So a reordering of the same tokens is a match, and 'Mainstream'
\* does not stand for the expected token 'main'.
C14_AddressTokens ==
  AddressCompared =>
    /\ res.fields[1].status =
         AddressLadder(AddressTokens(expected.producerAddress),
                       AddressTokens(Get(extracted.producerAddress)))
    /\ SetOf(AddressTokens(expected.producerAddress))
         = SetOf(AddressTokens(Get(extracted.producerAddress)))
       => res.fields[1].status = "match"
    /\ (/\ expected.producerAddress = "123 Main Street, Springfield, IL"
        /\ Get(extracted.producerAddress) = "456 Mainstream Blvd, Springfield, IL")
       => res.fields[1].status = "mismatch"

\* 'Mainstream' on the label where 'Main' is expected: three tokens missing
C14_Witness ==
  /\ AddressCompared
  /\ expected.producerAddress = "123 Main Street, Springfield, IL"
  /\ extracted.producerAddress = Some("456 Mainstream Blvd, Springfield, IL")
  /\ res.fields[1].status = "mismatch"

\* Addresses written token by token.  Each token has the word it stands for
\* when abbreviations are expanded and every other token is only lower-cased.
MaxTokens == 3

AddressWords ==
  { [raw |-> "12",          word |-> "12"],
    [raw |-> "Main",        word |-> "main"],
    [raw |-> "St",          word |-> "street"],
    [raw |-> "St.",         word |-> "street"],
    [raw |-> "N",           word |-> "north"],
    [raw |-> "AVE",         word |-> "avenue"],
    [raw |-> "Street",      word |-> "street"],
    [raw |-> "Constructor", word |-> "constructor"] }

AddressSeparators == {" ", ", ", ";"}

\* the sequences of one to MaxTokens tokens
TokenLists == UNION { [1..n -> AddressWords] : n \in 1..MaxTokens }

Raws(tokens) == [k \in 1..Len(tokens) |-> tokens[k].raw]

Words(tokens) == [k \in 1..Len(tokens) |-> tokens[k].word]

NormalizeAddress ==
  /\ pc = "idle"
  /\ \E tokens \in TokenLists, sep \in AddressSeparators :
       NormalizeAddressCall(join(Raws(tokens), sep))

\* C15: normalizeAddress lower-cases, turns '.', ',' and ';' into spaces,
\* collapses whitespace and expands each token that is a known abbreviation,
\* every other token passing through unchanged; the tokens keep their number
\* and order, and normalizing the result again changes nothing.
C15_NormalizeAddress ==
  pc = "normalized" =>
    /\ \A tokens \in TokenLists, sep \in AddressSeparators :
         value = join(Raws(tokens), sep)
           => Get(normalized) = join(Words(tokens), " ")
    /\ normalizeAddress(Get(normalized)) = Get(normalized)

\* Warning texts.  form: the class of texts equal after trimming and
\* collapsing whitespace, case preserved.
WarningTextCases ==
  { [text |-> "GOVERNMENT WARNING: (1) Drink less.",     form |-> 1],
    [text |-> " GOVERNMENT  WARNING: (1) Drink less. ",  form |-> 1],
    [text |-> "GOVERNMENT\nWARNING: (1) Drink less.",    form |-> 1],
    [text |-> "Government Warning: (1) Drink less.",     form |-> 2],
    [text |-> "government warning: (1) drink less.",     form |-> 3],
    [text |-> "GOVERNMENT WARNING: (2) Drive less.",     form |-> 4],
    [text |-> STANDARD_GOV_WARNING,                      form |-> 5] }

WarningTexts == { c.text : c \in WarningTextCases }

WarningForm(t) == (CHOOSE c \in WarningTextCases : c.text = t).form

\* a flag the extraction reports: true, false or undetermined
Flags == {NULL, Some(TRUE), Some(FALSE)}

CompareGovernmentWarning ==
  /\ pc = "idle"
  /\ \E e \in WarningTexts, x \in WarningTexts, allCaps \in Flags, bold \in Flags :
       CompareFieldsCall([EmptyApplicationData EXCEPT !.governmentWarning = e],
                         [EmptyLabel EXCEPT !.governmentWarning = Some(x),
                                            !.governmentWarningAllCaps = allCaps,
                                            !.governmentWarningBold = bold],
                         0, NoRounding)

WarningCompared ==
  /\ OneCompared("governmentWarning")
  /\ expected.governmentWarning \in WarningTexts
  /\ Get(extracted.governmentWarning) \in WarningTexts

\* C16: the governmentWarning field is a mismatch when the two texts differ
\* after whitespace normalization, also when they differ in letter case only;
\* when they are equal it is a warning if governmentWarningAllCaps or
\* governmentWarningBold is false and a match otherwise, so a null flag does
\* not downgrade a match.
C16_WarningField ==
  WarningCompared =>
    res.fields[1].status =
      IF WarningForm(expected.governmentWarning)
           # WarningForm(Get(extracted.governmentWarning))
      THEN "mismatch"
      ELSE IF \/ extracted.governmentWarningAllCaps = Some(FALSE)
              \/ extracted.governmentWarningBold = Some(FALSE)
           THEN "warning"
      ELSE "match"

\* equal texts up to whitespace, both flags undetermined: a match
C16_Witness ==
  /\ WarningCompared
  /\ expected.governmentWarning = "GOVERNMENT WARNING: (1) Drink less."
  /\ extracted.governmentWarning = Some(" GOVERNMENT  WARNING: (1) Drink less. ")
  /\ extracted.governmentWarningAllCaps = NULL
  /\ extracted.governmentWarningBold = NULL
  /\ res.fields[1].status = "match"

\* the standard text with its first two words written as 'prefix'
WithPrefix(prefix) ==
  prefix \o SubSeq(STANDARD_GOV_WARNING, Len("GOVERNMENT WARNING") + 1,
                   Len(STANDARD_GOV_WARNING))

\* Extracted warnings.  kind: "missing", "exact" (the standard text up to
\* whitespace), "case" (the standard text up to whitespace and letter case)
\* or "other".
ComplianceCases ==
  { [text |-> NULL,                                   kind |-> "missing"],
    [text |-> Some(""),                               kind |-> "missing"],
    [text |-> Some(STANDARD_GOV_WARNING),             kind |-> "exact"],
    [text |-> Some(WithPrefix(" GOVERNMENT  WARNING")) , kind |-> "exact"],
    [text |-> Some(WithPrefix("GOVERNMENT\nWARNING") \o "\n"), kind |-> "exact"],
    [text |-> Some(WithPrefix("Government Warning")), kind |-> "case"],
    [text |-> Some(WithPrefix("government  warning")), kind |-> "case"],
    [text |-> Some(WithPrefix("GOVERNMENT WARNINGS")), kind |-> "other"],
    [text |-> Some("GOVERNMENT WARNING: (1) Drink less."), kind |-> "other"],
    [text |-> Some("  "),                             kind |-> "other"] }

ComplianceKind(t) == (CHOOSE c \in ComplianceCases : c.text = t).kind

\* compareFields on a label with one of the warnings and any flags; the brand
\* name is expected or not, and matches when it is
CheckGovernmentWarningCompliance ==
  /\ pc = "idle"
  /\ \E c \in ComplianceCases, allCaps \in Flags, bold \in Flags,
        brand \in {"", "Old Tom"} :
       CompareFieldsCall([EmptyApplicationData EXCEPT !.brandName = brand],
                         [EmptyLabel EXCEPT !.brandName = Some("Old Tom"),
                                            !.governmentWarning = c.text,
                                            !.governmentWarningAllCaps = allCaps,
                                            !.governmentWarningBold = bold],
                         0, NoRounding)

\* the compliance check of the result
check == Get(res.governmentWarningCheck)

\* C17: on a label whose warning is null or empty the compliance check is
\* exactly textMatch = false, allCapsCorrect = null, boldCorrect = null,
\* extractedText = null and the single issue 'Government warning not found on
\* label', whatever the two flags are, and the label is not approved.
C17_MissingWarning ==
  (/\ Compared
   /\ extracted.isAlcoholLabel
   /\ \/ extracted.governmentWarning = NULL
      \/ extracted.governmentWarning = Some(""))
  => /\ ~IsNull(res.governmentWarningCheck)
     /\ check = [textMatch |-> FALSE, allCapsCorrect |-> NULL, boldCorrect |-> NULL,
                 extractedText |-> NULL,
                 issues |-> <<"Government warning not found on label">>]
     /\ res.overallStatus # "approved"

\* an empty warning with both flags set, the only compared field a match: the
\* flags are not reported and the label needs review
C17_Witness ==
  /\ Compared
  /\ extracted.governmentWarning = Some("")
  /\ extracted.governmentWarningAllCaps = Some(FALSE)
  /\ extracted.governmentWarningBold = Some(FALSE)
  /\ Statuses = {"match"}
  /\ check.allCapsCorrect = NULL
  /\ Len(check.issues) = 1
  /\ res.overallStatus = "needs_review"

\* the number of issues of the check that satisfy P
CountIssues(P(_)) == Cardinality({ k \in 1..Len(check.issues) : P(check.issues[k]) })

ComplianceChecked ==
  /\ Compared
  /\ IsNull(previous)
  /\ extracted.isAlcoholLabel
  /\ extracted.governmentWarning \in { c.text : c \in ComplianceCases }
  /\ ComplianceKind(extracted.governmentWarning) # "missing"

\* C18: on a non-empty warning textMatch is the equality with the standard
\* text up to whitespace and letter case; the issues are one text issue iff
\* textMatch is false, one capitalization issue iff textMatch is true and the
\* text differs from the standard in case, one ALL CAPS issue iff
\* governmentWarningAllCaps is false and one 'verify manually' issue iff
\* governmentWarningBold is false, and nothing else; so the list is empty
\* exactly when the text is the standard and neither flag is false.
C18_ComplianceIssues ==
  ComplianceChecked =>
    /\ check.textMatch <=> ComplianceKind(extracted.governmentWarning) \in {"exact", "case"}
    /\ CountIssues(LAMBDA i : i = ISSUE_TEXT) = IF check.textMatch THEN 0 ELSE 1
    /\ CountIssues(LAMBDA i : i = ISSUE_CASE)
         = IF ComplianceKind(extracted.governmentWarning) = "case" THEN 1 ELSE 0
    /\ CountIssues(LAMBDA i : i = ISSUE_ALL_CAPS)
         = IF extracted.governmentWarningAllCaps = Some(FALSE) THEN 1 ELSE 0
    /\ CountIssues(LAMBDA i : includes(i, "verify manually"))
         = IF extracted.governmentWarningBold = Some(FALSE) THEN 1 ELSE 0
    /\ SetOf(check.issues) \subseteq {ISSUE_TEXT, ISSUE_CASE, ISSUE_ALL_CAPS, ISSUE_BOLD}
    /\ check.issues = <<>> <=>
         /\ ComplianceKind(extracted.governmentWarning) = "exact"
         /\ extracted.governmentWarningAllCaps # Some(FALSE)
         /\ extracted.governmentWarningBold # Some(FALSE)

\* the standard text in another case with both flags false: three issues, the
\* capitalization issue among them and no text issue
C18_Witness ==
  /\ ComplianceChecked
  /\ ComplianceKind(extracted.governmentWarning) = "case"
  /\ extracted.governmentWarningAllCaps = Some(FALSE)
  /\ extracted.governmentWarningBold = Some(FALSE)
  /\ check.textMatch
  /\ check.issues = <<ISSUE_CASE, ISSUE_ALL_CAPS, ISSUE_BOLD>>

NextFields ==
  \/ CompareBrandName
  \/ CompareSimpleField
  \/ CompareCountryOfOrigin
  \/ CompareNetContents
  \/ CompareProducerAddress
  \/ NormalizeAddress
  \/ CompareGovernmentWarning
  \/ CheckGovernmentWarningCompliance
  \/ Return

SpecFields == Init /\ [][NextFields]_vars

(***************************************************************************)
(* Pairs of calls.  compareFields is called, and called again with one     *)
(* argument changed; 'previous' holds the first call beside the second.    *)
(***************************************************************************)
OtherWarning == "GOVERNMENT WARNING: (1) Drink less."

PairExpecteds ==
  { [EmptyApplicationData EXCEPT !.brandName = b, !.governmentWarning = w] :
      b \in {"", "Old Tom"}, w \in {"", STANDARD_GOV_WARNING, OtherWarning} }

PairExtracteds ==
  { [EmptyLabel EXCEPT !.brandName = b, !.governmentWarning = w,
                       !.governmentWarningAllCaps = allCaps,
                       !.governmentWarningBold = bold,
                       !.isAlcoholLabel = isAlcoholLabel] :
      b \in {NULL, Some("Old Tom"), Some("OLD TOM"), Some("Acme")},
      w \in {NULL, Some(STANDARD_GOV_WARNING), Some(toLowerCase(STANDARD_GOV_WARNING)),
             Some(OtherWarning)},
      allCaps \in {Some(TRUE), Some(FALSE)},
      bold \in Flags,
      isAlcoholLabel \in BOOLEAN }

CompareFirst ==
  /\ pc = "idle"
  /\ \E exp \in PairExpecteds, ext \in PairExtracteds :
       CompareFieldsCall(exp, ext, 0, NoRounding)

\* the same label against other expected data
CompareOtherExpected ==
  /\ pc = "compared"
  /\ \E exp \in PairExpecteds \ {expected} :
       CompareFieldsAgain(exp, extracted, 0, NoRounding)

\* the same expected data against the label with another bold finding
CompareOtherBold ==
  /\ pc = "compared"
  /\ \E bold \in Flags \ {extracted.governmentWarningBold} :
       CompareFieldsAgain(expected, [extracted EXCEPT !.governmentWarningBold = bold],
                          0, NoRounding)

NextPairs == CompareFirst \/ CompareOtherExpected \/ CompareOtherBold \/ Return

SpecPairs == Init /\ [][NextPairs]_vars

\* the first of two calls
prev == Get(previous)

TwoCompared == Compared /\ ~IsNull(previous)

\* C19: the governmentWarningCheck of the result is null exactly when
\* isAlcoholLabel is false, and two calls with the same extracted record and
\* different expected records give the same governmentWarningCheck.
C19_CheckIgnoresExpected ==
  /\ Compared => (IsNull(res.governmentWarningCheck) <=> ~extracted.isAlcoholLabel)
  /\ (TwoCompared /\ prev.extracted = extracted)
     => prev.result.governmentWarningCheck = res.governmentWarningCheck

\* the label carries the other warning text: once that text is expected and
\* once the standard text, and the check reports the text issue both times
C19_Witness ==
  /\ TwoCompared
  /\ prev.extracted = extracted
  /\ extracted.governmentWarning = Some(OtherWarning)
  /\ prev.expected.governmentWarning = OtherWarning
  /\ expected.governmentWarning = STANDARD_GOV_WARNING
  /\ ~IsNull(res.governmentWarningCheck)
  /\ ISSUE_TEXT \in SetOf(check.issues)
  /\ prev.result.governmentWarningCheck = res.governmentWarningCheck

\* the two calls differ in governmentWarningBold only
OnlyBoldDiffers ==
  /\ TwoCompared
  /\ prev.expected = expected
  /\ prev.extracted.governmentWarningBold # extracted.governmentWarningBold
  /\ [prev.extracted EXCEPT !.governmentWarningBold = NULL]
       = [extracted EXCEPT !.governmentWarningBold = NULL]

\* C20: of two calls that differ only in governmentWarningBold, false in one
\* and true or null in the other, the one with false is not rejected unless
\* the other one is.
C20_BoldNeverRejects ==
  OnlyBoldDiffers =>
    /\ (/\ extracted.governmentWarningBold = Some(FALSE)
        /\ prev.result.overallStatus # "rejected")
       => res.overallStatus # "rejected"
    /\ (/\ prev.extracted.governmentWarningBold = Some(FALSE)
        /\ res.overallStatus # "rejected")
       => prev.result.overallStatus # "rejected"

\* the standard warning is expected and extracted: approved with bold true,
\* and with bold false the field is a warning and the label needs review
C20_Witness ==
  /\ OnlyBoldDiffers
  /\ expected.governmentWarning = STANDARD_GOV_WARNING
  /\ prev.extracted.governmentWarningBold = Some(TRUE)
  /\ prev.result.overallStatus = "approved"
  /\ extracted.governmentWarningBold = Some(FALSE)
  /\ "warning" \in Statuses
  /\ res.overallStatus = "needs_review"

(***************************************************************************)
(* The records around a call.  The caller builds the two records and the   *)
(* elapsed time (pc "called"), then the body of compareFields runs and     *)
(* returns (pc "compared"): the body reads the records held in expected    *)
(* and extracted and assigns to none of their fields.                      *)
(***************************************************************************)
ImageQualities == {"good", "fair", "poor"}

Confidences == {0, 95}

NoteLists == {<<>>, <<"Glare on the label">>, <<"Glare on the label", "Curved bottle">>}

ElapsedTimes == {0, 1200, 60000}

FrameExpecteds ==
  { [EmptyApplicationData EXCEPT !.brandName = b, !.governmentWarning = w] :
      b \in {"", "Old Tom"}, w \in {"", STANDARD_GOV_WARNING} }

FrameExtracteds ==
  { [EmptyLabel EXCEPT !.brandName = b, !.governmentWarning = w,
                       !.isAlcoholLabel = isAlcoholLabel,
                       !.imageQuality = q, !.confidence = c, !.notes = n] :
      b \in {NULL, Some("Old Tom"), Some("OLD TOM"), Some("Acme")},
      w \in {NULL, Some(STANDARD_GOV_WARNING)},
      isAlcoholLabel \in BOOLEAN,
      q \in ImageQualities, c \in Confidences, n \in NoteLists }

\* the caller has the two records and the elapsed time and calls compareFields
CallCompareFields ==
  /\ pc = "idle"
  /\ \E exp \in FrameExpecteds, ext \in FrameExtracteds, timeMs \in ElapsedTimes :
       /\ pc' = "called"
       /\ expected' = exp
       /\ extracted' = ext
       /\ processingTimeMs' = timeMs
       /\ UNCHANGED <<result, value, parsed, normalized, previous>>
  /\ UNCHANGED outside

\* the body of compareFields: reads its three arguments, returns a new record
CompareFieldsReturn ==
  /\ pc = "called"
  /\ pc' = "compared"
  /\ result' = Some(compareFields(expected, extracted, processingTimeMs, NoRounding))
  /\ UNCHANGED <<expected, extracted, processingTimeMs, value, parsed, normalized,
                 previous>>
  /\ UNCHANGED outside

ReturnCompared == Compared /\ Return

NextFrame == CallCompareFields \/ CompareFieldsReturn \/ ReturnCompared

SpecFrame == Init /\ [][NextFrame]_vars

\* C21: across the body of compareFields the result takes isAlcoholLabel,
\* imageQuality, confidence and notes from the extracted record and
\* processingTimeMs from the argument, unchanged, whatever the overall status,
\* and the expected and the extracted record are the same after the call as
\* before it.
C21_PassThrough ==
  [][(pc = "called" /\ pc' = "compared") =>
       /\ result'[1].isAlcoholLabel = extracted.isAlcoholLabel
       /\ result'[1].imageQuality = extracted.imageQuality
       /\ result'[1].confidence = extracted.confidence
       /\ result'[1].notes = extracted.notes
       /\ result'[1].processingTimeMs = processingTimeMs
       /\ expected' = expected
       /\ extracted' = extracted]_vars

\* a rejected result (not an alcohol label) that carries two notes, a poor
\* image, and the elapsed time of the caller
C21_Witness ==
  /\ Compared
  /\ res.overallStatus = "rejected"
  /\ ~extracted.isAlcoholLabel
  /\ Len(extracted.notes) = 2
  /\ res.notes = extracted.notes
  /\ res.imageQuality = "poor"
  /\ res.confidence = 0
  /\ res.processingTimeMs = 60000

(***************************************************************************)
(* Invocations one after another.  compareFields is synchronous, so the    *)
(* invocations of concurrent requests run one at a time in some order;     *)
(* 'calls' logs each with its arguments and its result, and a result may   *)
(* be dropped by its caller before or after the next invocation.           *)
(***************************************************************************)
MaxCalls == 3

\* a label with the standard warning in capitals and bold
GoodLabel ==
  [EmptyLabel EXCEPT !.governmentWarning = Some(STANDARD_GOV_WARNING),
                     !.governmentWarningAllCaps = Some(TRUE),
                     !.governmentWarningBold = Some(TRUE)]

Argument(exp, ext, timeMs) ==
  [expected |-> exp, extracted |-> ext, processingTimeMs |-> timeMs]

\* the arguments of the invocations: pairs that reach each overall status, on
\* different fields, with different warnings, notes and elapsed times
CallArguments ==
  { Argument([EmptyApplicationData EXCEPT !.brandName = "Old Tom"],
             [GoodLabel EXCEPT !.brandName = Some("Old Tom")], 0),
    Argument([EmptyApplicationData EXCEPT !.classType = "Gin"],
             [GoodLabel EXCEPT !.classType = Some(" gin"),
                               !.governmentWarningAllCaps = NULL,
                               !.governmentWarningBold = NULL,
                               !.imageQuality = "fair",
                               !.notes = <<"Glare on the label">>], 1200),
    Argument([EmptyApplicationData EXCEPT !.brandName = "Old Tom"],
             [GoodLabel EXCEPT !.brandName = Some("Old Tom"),
                               !.governmentWarningBold = Some(FALSE)], 0),
    Argument([EmptyApplicationData EXCEPT !.brandName = "Old Tom"],
             [GoodLabel EXCEPT !.brandName = Some("Acme")], 0),
    Argument([EmptyApplicationData EXCEPT !.classType = "Gin"],
             [GoodLabel EXCEPT !.classType = Some("Rum"), !.confidence = 0], 1200),
    Argument([EmptyApplicationData EXCEPT !.brandName = "Old Tom"],
             [GoodLabel EXCEPT !.brandName = Some("OLD TOM")], 0),
    Argument(EmptyApplicationData, GoodLabel, 0),
    Argument([EmptyApplicationData EXCEPT !.brandName = "Old Tom"],
             [GoodLabel EXCEPT !.brandName = Some("Old Tom"),
                               !.isAlcoholLabel = FALSE], 0),
    Argument([EmptyApplicationData EXCEPT !.brandName = "Old Tom"],
             [EmptyLabel EXCEPT !.brandName = Some("Old Tom")], 0),
    Argument([EmptyApplicationData EXCEPT !.classType = "Gin"],
             [EmptyLabel EXCEPT !.classType = Some("Gin"),
                                !.governmentWarning = Some("")], 60000) }

\* one more invocation, after the ones logged in calls
CompareFieldsInTurn ==
  /\ pc \in {"idle", "compared"}
  /\ Len(calls) < MaxCalls
  /\ \E a \in CallArguments :
       LET r == compareFields(a.expected, a.extracted, a.processingTimeMs, NoRounding)
       IN  /\ pc' = "compared"
           /\ expected' = a.expected
           /\ extracted' = a.extracted
           /\ processingTimeMs' = a.processingTimeMs
           /\ result' = Some(r)
           /\ calls' = Append(calls, [argument |-> a, result |-> r])
  /\ UNCHANGED <<value, parsed, normalized, previous, limiter, pool>>

NextCalls == CompareFieldsInTurn \/ Return

SpecCalls == Init /\ [][NextCalls]_vars

StatusesOf(r) == [k \in 1..Len(r.fields) |-> r.fields[k].status]

IssuesOf(r) ==
  IF IsNull(r.governmentWarningCheck) THEN <<>>
  ELSE Get(r.governmentWarningCheck).issues

WINDOW_MS == 60000

MAX_REQUESTS == 10

CLEANUP_INTERVAL_MS == 60000

\* ipTimestamps.get(ip) ?? []
timestampsOf(entries, ip) ==
  LET at == { k \in 1..Len(entries) : entries[k].ip = ip }
  IN  IF at = {} THEN <<>> ELSE entries[CHOOSE k \in at : TRUE].timestamps

\* ipTimestamps.set(ip, timestamps): an entry that exists keeps its place
setTimestamps(entries, ip, timestamps) ==
  IF \E k \in 1..Len(entries) : entries[k].ip = ip
  THEN [k \in 1..Len(entries) |->
          IF entries[k].ip = ip THEN [ip |-> ip, timestamps |-> timestamps]
          ELSE entries[k]]
  ELSE Append(entries, [ip |-> ip, timestamps |-> timestamps])

\* timestamps.filter((t) => now - t < WINDOW_MS)
valid(timestamps, now) == SelectSeq(timestamps, LAMBDA t : now - t < WINDOW_MS)

\* Mutant of cleanupStaleEntries: a cleanup that is due empties the map.
cleanupStaleEntriesAll(entries, last, now) ==
  IF now - last < CLEANUP_INTERVAL_MS
  THEN [ipTimestamps |-> entries, lastCleanup |-> last]
  ELSE [ipTimestamps |-> <<>>, lastCleanup |-> now]

\* the map and lastCleanup after cleanupStaleEntries(now)
cleanupStaleEntries(entries, last, now) ==
  IF now - last < CLEANUP_INTERVAL_MS
  THEN [ipTimestamps |-> entries, lastCleanup |-> last]
  ELSE [ipTimestamps |->
          SelectSeq([k \in 1..Len(entries) |->
                       [ip |-> entries[k].ip,
                        timestamps |-> valid(entries[k].timestamps, now)]],
                    LAMBDA e : Len(e.timestamps) > 0),
        lastCleanup |-> now]

\* header.split(",")[0].trim()
firstEntry(header) ==
  LET comma == IndexOfFrom(header, ",", 1)
  IN  trim(IF comma = 0 THEN header ELSE SubSeq(header, 1, comma - 1))

\* Mutant of getClientIp: x-forwarded-for is read before cf-connecting-ip.
getClientIpForwardedFirst(request) ==
  IF ~IsNull(request.forwardedFor) /\ firstEntry(Get(request.forwardedFor)) # ""
  THEN firstEntry(Get(request.forwardedFor))
  ELSE IF ~IsNull(request.connectingIp) /\ Get(request.connectingIp) # ""
  THEN Get(request.connectingIp)
  ELSE "unknown"

\* a request is its two headers, each absent (null) or a text
getClientIp(request) ==
  IF ~IsNull(request.connectingIp) /\ Get(request.connectingIp) # ""
  THEN Get(request.connectingIp)
  ELSE IF ~IsNull(request.forwardedFor) /\ firstEntry(Get(request.forwardedFor)) # ""
  THEN firstEntry(Get(request.forwardedFor))
  ELSE "unknown"

\* Mutant of checkRateLimit: a request is denied when more than MAX_REQUESTS
\* are in the window.
checkRateLimitOneMore(entries, last, request, now) ==
  LET cleaned == cleanupStaleEntries(entries, last, now)
      ip == getClientIp(request)
      windowStart == now - WINDOW_MS
      recent == SelectSeq(timestampsOf(cleaned.ipTimestamps, ip),
                          LAMBDA t : t > windowStart)
  IN  IF Len(recent) > MAX_REQUESTS
      THEN [allowed |-> FALSE, retryAfterMs |-> Some(recent[1] + WINDOW_MS - now),
            ipTimestamps |-> cleaned.ipTimestamps, lastCleanup |-> cleaned.lastCleanup]
      ELSE [allowed |-> TRUE, retryAfterMs |-> NULL,
            ipTimestamps |-> setTimestamps(cleaned.ipTimestamps, ip, Append(recent, now)),
            lastCleanup |-> cleaned.lastCleanup]

\* the outcome of checkRateLimit(request) at time now, with the map and
\* lastCleanup as the call leaves them
checkRateLimit(entries, last, request, now) ==
  LET cleaned == cleanupStaleEntries(entries, last, now)
      ip == getClientIp(request)
      windowStart == now - WINDOW_MS
      recent == SelectSeq(timestampsOf(cleaned.ipTimestamps, ip),
                          LAMBDA t : t > windowStart)
  IN  IF Len(recent) >= MAX_REQUESTS
      THEN [allowed |-> FALSE, retryAfterMs |-> Some(recent[1] + WINDOW_MS - now),
            ipTimestamps |-> cleaned.ipTimestamps, lastCleanup |-> cleaned.lastCleanup]
      ELSE [allowed |-> TRUE, retryAfterMs |-> NULL,
            ipTimestamps |-> setTimestamps(cleaned.ipTimestamps, ip, Append(recent, now)),
            lastCleanup |-> cleaned.lastCleanup]

\* checkRateLimit(request) is called when Date.now() is 'now', and returns
CheckRateLimitCall(request, now) ==
  LET r == checkRateLimit(ipTimestamps, lastCleanup, request, now)
  IN  /\ clock' = now
      /\ ipTimestamps' = r.ipTimestamps
      /\ lastCleanup' = r.lastCleanup
      /\ history' = Append(history, [request |-> request, now |-> now,
                                     allowed |-> r.allowed,
                                     retryAfterMs |-> r.retryAfterMs])
      /\ UNCHANGED <<engine, calls, pool>>

\* the number of calls of checkRateLimit in a behaviour
MaxChecks == 12

\* the values of the clock at the calls: the start, the instant after it,
\* and one window after each
Instants == {0, 1, 60000, 60001}

\* requests with the key each is counted under
RequestCases ==
  { [request |-> [connectingIp |-> Some("1.2.3.4"), forwardedFor |-> NULL],
     key |-> "1.2.3.4"],
    [request |-> [connectingIp |-> Some("1.2.3.4"), forwardedFor |-> Some("3.3.3.3")],
     key |-> "1.2.3.4"],
    [request |-> [connectingIp |-> NULL, forwardedFor |-> Some("3.3.3.3, 4.4.4.4")],
     key |-> "3.3.3.3"],
    [request |-> [connectingIp |-> NULL, forwardedFor |-> Some(" 3.3.3.3")],
     key |-> "3.3.3.3"],
    [request |-> [connectingIp |-> NULL, forwardedFor |-> NULL],
     key |-> "unknown"],
    [request |-> [connectingIp |-> NULL, forwardedFor |-> Some(", 4.4.4.4")],
     key |-> "unknown"] }

Requests == { c.request : c \in RequestCases }

Keys == { c.key : c \in RequestCases }

KeyOf(request) == (CHOOSE c \in RequestCases : c.request = request).key

\* the request of the client that is followed up to the limit and beyond
MainRequest == [connectingIp |-> Some("1.2.3.4"), forwardedFor |-> NULL]

\* the main client calls at a clock that does not go back
CheckMain ==
  /\ pc = "idle"
  /\ Len(history) < MaxChecks
  /\ \E now \in Instants :
       /\ now >= clock
       /\ CheckRateLimitCall(MainRequest, now)

\* one request with other headers arrives among those of the main client
CheckOther ==
  /\ pc = "idle"
  /\ Len(history) < MaxChecks
  /\ \A i \in 1..Len(history) : history[i].request = MainRequest
  /\ \E request \in Requests \ {MainRequest}, now \in Instants :
       /\ now >= clock
       /\ CheckRateLimitCall(request, now)

NextLimiter == CheckMain \/ CheckOther

SpecLimiter == Init /\ [][NextLimiter]_vars

\* the calls so far, by position
Checks == 1..Len(history)

\* the allowed calls before call i that have the key of call i and a
\* timestamp strictly newer than 60000 ms before call i
NewerAllowed(i) ==
  { j \in 1..(i - 1) :
      /\ history[j].allowed
      /\ KeyOf(history[j].request) = KeyOf(history[i].request)
      /\ history[j].now > history[i].now - 60000 }

\* the allowed calls with the key of call i in the window of 60000 ms that
\* ends with call i
AllowedInWindow(i) ==
  { j \in Checks :
      /\ history[j].allowed
      /\ KeyOf(history[j].request) = KeyOf(history[i].request)
      /\ history[j].now > history[i].now - 60000
      /\ history[j].now <= history[i].now }

\* C23: in every window of 60000 ms at most 10 calls of one client were
\* allowed; a call is denied exactly when 10 allowed calls of its client
\* are strictly newer than now - 60000 (so the first 10 of an empty window
\* are allowed), and a denied call reports 0 < retryAfterMs <= 60000.
C23_AtMostTenInWindow ==
  \A i \in Checks :
    /\ Cardinality(AllowedInWindow(i)) <= 10
    /\ Cardinality(NewerAllowed(i)) <= 10
    /\ ~history[i].allowed <=> Cardinality(NewerAllowed(i)) = 10
    /\ history[i].allowed => IsNull(history[i].retryAfterMs)
    /\ ~history[i].allowed =>
         /\ ~IsNull(history[i].retryAfterMs)
         /\ Get(history[i].retryAfterMs) > 0
         /\ Get(history[i].retryAfterMs) <= 60000

\* ten calls allowed at clock 0, the eleventh denied at the same instant with
\* the whole window to wait, the twelfth denied an instant later
C23_Witness ==
  /\ Len(history) = 12
  /\ \A i \in 1..10 : history[i].allowed /\ history[i].now = 0
  /\ ~history[11].allowed
  /\ history[11].retryAfterMs = Some(60000)
  /\ ~history[12].allowed
  /\ history[12].retryAfterMs = Some(59999)

\* the timestamps of the allowed calls with key k, in the order of the calls
AllowedTimes(k) ==
  LET allowedCalls == SelectSeq(history, LAMBDA h : h.allowed /\ KeyOf(h.request) = k)
  IN  [n \in 1..Len(allowedCalls) |-> allowedCalls[n].now]

\* the timestamps that count in the window that ends at 'now'
Unexpired(timestamps, now) == SelectSeq(timestamps, LAMBDA t : t > now - 60000)

\* call j is the next call of the client of call i, call i was denied, no
\* call of that client was allowed in between, and the time that the denial
\* told the client to wait has passed
RetriedInTime(i, j) ==
  /\ i < j
  /\ KeyOf(history[i].request) = KeyOf(history[j].request)
  /\ ~history[i].allowed
  /\ \A n \in (i + 1)..(j - 1) :
       KeyOf(history[n].request) = KeyOf(history[i].request) => ~history[n].allowed
  /\ history[j].now >= history[i].now + Get(history[i].retryAfterMs)

\* C24: a call that follows a denial of the same client by at least the
\* retryAfterMs of the denial, with no allowed call of the client in between,
\* is allowed; and whatever the cleanup has removed, the map holds for every
\* client exactly the unexpired timestamps of its allowed calls, so that the
\* cleanup changes no outcome.
C24_AllowedAfterRetry ==
  /\ \A i, j \in Checks : RetriedInTime(i, j) => history[j].allowed
  /\ \A k \in Keys :
       Unexpired(timestampsOf(ipTimestamps, k), clock) = Unexpired(AllowedTimes(k), clock)

\* one call at clock 0 and nine at clock 1 are allowed, the eleventh is denied
\* at clock 1 and told to wait 59999 ms; the twelfth comes exactly then, runs
\* the cleanup, which removes the timestamp 0 and keeps the nine others, and is
\* allowed
C24_Witness ==
  /\ Len(history) = 12
  /\ history[1].now = 0
  /\ ~history[11].allowed
  /\ history[11].now = 1
  /\ history[11].retryAfterMs = Some(59999)
  /\ RetriedInTime(11, 12)
  /\ history[12].now = 60000
  /\ history[12].allowed
  /\ lastCleanup = 60000
  /\ timestampsOf(ipTimestamps, "1.2.3.4") = <<1, 1, 1, 1, 1, 1, 1, 1, 1, 60000>>

\* the last call of checkRateLimit
lastCheck == history[Len(history)]

\* an allowed call has put its timestamp last in the list of the key that the
\* headers of its request stand for
RecordedUnderKey ==
  (Len(history) > 0 /\ lastCheck.allowed) =>
    LET stored == timestampsOf(ipTimestamps, KeyOf(lastCheck.request))
    IN  /\ Len(stored) > 0
        /\ stored[Len(stored)] = lastCheck.now

\* each call is allowed or denied by the earlier allowed calls of its own key
KeyedOutcome ==
  \A i \in Checks : history[i].allowed <=> Cardinality(NewerAllowed(i)) < 10

\* a call of checkRateLimit: across it the unexpired timestamps of every
\* other key stay as they are, those of its own key too when it is denied,
\* and when it is allowed its own key gains the timestamp of the call
OneKeyTouched ==
  Len(history') = Len(history) + 1 =>
    LET h == history'[Len(history')]
    IN  \A k \in Keys :
          Unexpired(timestampsOf(ipTimestamps', k), clock') =
            IF k = KeyOf(h.request) /\ h.allowed
            THEN Append(Unexpired(timestampsOf(ipTimestamps, k), clock'), h.now)
            ELSE Unexpired(timestampsOf(ipTimestamps, k), clock')

\* C25: a call is counted under cf-connecting-ip, else under the first entry
\* of x-forwarded-for, else under 'unknown', and is allowed or denied by the
\* earlier allowed calls of that key alone; it adds and removes no unexpired
\* timestamp of another key, and a denied call adds none at all.
C25_KeysIndependent ==
  [](RecordedUnderKey /\ KeyedOutcome) /\ [][OneKeyTouched]_vars

\* the main client has used its ten calls; a request that names another client
\* in x-forwarded-for is allowed at the same instant, the main client is denied
\* after it, and the map holds the timestamps of the two keys apart
C25_Witness ==
  /\ Len(history) = 12
  /\ \A i \in 1..10 : history[i].request = MainRequest /\ history[i].allowed
  /\ history[11].request = [connectingIp |-> NULL, forwardedFor |-> Some("3.3.3.3, 4.4.4.4")]
  /\ history[11].allowed
  /\ history[11].now = 1
  /\ history[12].request = MainRequest
  /\ ~history[12].allowed
  /\ timestampsOf(ipTimestamps, "3.3.3.3") = <<1>>
  /\ Len(timestampsOf(ipTimestamps, "1.2.3.4")) = 10

(***************************************************************************)
(* processWithConcurrency.  JavaScript runs each piece of code between two *)
(* awaits to its end: the call itself up to 'await Promise.all(workers)'   *)
(* is one step, in which every worker enters its loop and calls fn once;   *)
(* each completion of a call of fn resumes its worker, which stores the    *)
(* result and goes round the loop, in one step; the calls of fn complete   *)
(* in any order.  index and currentIndex count from 0 as in the source,    *)
(* sequences from 1.                                                       *)
(***************************************************************************)
\* Math.min
min(a, b) == IF a < b THEN a ELSE b

\* one turn of 'while (index < items.length) { const currentIndex = index++;
\* ... await fn(items[currentIndex])': the worker awaits fn on the item it
\* took, or has left the loop
workerLoop(idx, length) ==
  IF idx < length
  THEN [worker |-> [state |-> "awaiting", currentIndex |-> idx], index |-> idx + 1]
  ELSE [worker |-> [state |-> "done", currentIndex |-> idx], index |-> idx]

RECURSIVE spawnWorkers(_, _, _)
\* Array.from({ length: count }, () => worker()): the workers made one after
\* the other, each run up to its first await, and the index they leave
spawnWorkers(count, idx, length) ==
  IF count = 0 THEN [workers |-> <<>>, index |-> idx]
  ELSE LET first == workerLoop(idx, length)
           others == spawnWorkers(count - 1, first.index, length)
       IN  [workers |-> <<first.worker>> \o others.workers, index |-> others.index]

\* Mutant of store: the result is put into the first free place of results.
storeInOrderOfCompletion(array, currentIndex, r) ==
  LET free == { i \in 1..Len(array) : IsNull(array[i]) }
  IN  [array EXCEPT ![CHOOSE i \in free : \A j \in free : i <= j] = Some(r)]

\* results[currentIndex] = r
store(array, currentIndex, r) == [array EXCEPT ![currentIndex + 1] = Some(r)]

\* how many of the workers await fn on the item at place i
AwaitedBy(ws, i) ==
  Cardinality({ w \in 1..Len(ws) :
                  ws[w].state = "awaiting" /\ ws[w].currentIndex = i - 1 })

MaxItems == 3

MaxLimit == 3

ItemValues == {"x.png", "y.png"}

\* what a call of fn may resolve with, beside the item it was given
Outputs == {"ok", "failed"}

ItemLists == UNION { [1..n -> ItemValues] : n \in 0..MaxItems }

\* processWithConcurrency(its, lim, fn) is called and runs up to its await
ProcessWithConcurrency ==
  /\ pc = "idle"
  /\ promise = "none"
  /\ \E its \in ItemLists, lim \in 1..MaxLimit :
       LET spawned == spawnWorkers(min(lim, Len(its)), 0, Len(its))
       IN  /\ items' = its
           /\ limit' = lim
           /\ results' = [i \in 1..Len(its) |-> NULL]
           /\ workers' = spawned.workers
           /\ index' = spawned.index
           /\ started' = [i \in 1..Len(its) |-> AwaitedBy(spawned.workers, i)]
  /\ promise' = "pending"
  /\ UNCHANGED <<engine, calls, limiter, completions>>

\* the call of fn that worker w awaits resolves with some output; the worker
\* stores it and goes round its loop
FnResolves ==
  /\ promise = "pending"
  /\ \E w \in 1..Len(workers), output \in Outputs :
       /\ workers[w].state = "awaiting"
       /\ LET currentIndex == workers[w].currentIndex
              r == [item |-> items[currentIndex + 1], output |-> output]
              next == workerLoop(index, Len(items))
          IN  /\ results' = store(results, currentIndex, r)
              /\ completions' = Append(completions, [place |-> currentIndex, result |-> r])
              /\ workers' = [workers EXCEPT ![w] = next.worker]
              /\ index' = next.index
              /\ started' = IF next.worker.state = "awaiting"
                            THEN [started EXCEPT ![next.worker.currentIndex + 1] = @ + 1]
                            ELSE started
  /\ UNCHANGED <<engine, calls, limiter, items, limit, promise>>

\* every worker has left its loop: Promise.all resolves and results is returned
AllResolve ==
  /\ promise = "pending"
  /\ \A w \in 1..Len(workers) : workers[w].state = "done"
  /\ promise' = "fulfilled"
  /\ UNCHANGED <<engine, calls, limiter, items, limit, index, results, workers,
                 started, completions>>

NextPool == ProcessWithConcurrency \/ FnResolves \/ AllResolve

SpecPool == Init /\ [][NextPool]_vars

Places == 1..Len(items)

\* the results of the completed calls of fn on the item at place i
CompletedAt(i) ==
  SelectSeq(completions, LAMBDA c : c.place = i - 1)

RECURSIVE SumOver(_, _)
SumOver(f, n) == IF n = 0 THEN 0 ELSE f[n] + SumOver(f, n - 1)

\* the calls of fn that have not completed
InFlight == SumOver(started, Len(started)) - Len(completions)

\* C26: fn is called at most once on each item, and exactly once on each by
\* the time the promise resolves; never more than min(limit, items.length)
\* calls are in flight; the promise resolves only when every call has
\* completed; and results[i] is what the call of fn on items[i] resolved with,
\* in whatever order the calls completed.
C26_EveryItemOnce ==
  promise # "none" =>
    /\ Len(results) = Len(items)
    /\ InFlight >= 0
    /\ InFlight <= limit
    /\ InFlight <= Len(items)
    /\ \A i \in Places :
         /\ started[i] <= 1
         /\ Len(CompletedAt(i)) <= started[i]
         /\ IF Len(CompletedAt(i)) = 0 THEN IsNull(results[i])
            ELSE /\ results[i] = Some(CompletedAt(i)[1].result)
                 /\ Get(results[i]).item = items[i]
    /\ promise = "fulfilled" =>
         /\ InFlight = 0
         /\ \A i \in Places : started[i] = 1 /\ Len(CompletedAt(i)) = 1

\* three items with a limit of two: the second item completes before the
\* first, the two calls resolve with different outputs, and the promise has
\* resolved with each result in the place of its item
C26_Witness ==
  /\ promise = "fulfilled"
  /\ Len(items) = 3
  /\ limit = 2
  /\ items[1] # items[2]
  /\ completions[1].place = 1
  /\ completions[2].place = 0
  /\ completions[1].result.output # completions[2].result.output
  /\ results[1] = Some(completions[2].result)
  /\ results[2] = Some(completions[1].result)
  /\ ~IsNull(results[3])

(***************************************************************************)
(* Approval and the warning.  Whole records again: the label carries one   *)
(* of the warnings of ComplianceCases with any flags; nothing is expected  *)
(* for the warning, or the standard text, or the very text of the label.   *)
(***************************************************************************)
CompareAnyWarning ==
  /\ pc = "idle"
  /\ \E c \in ComplianceCases, allCaps \in Flags, bold \in Flags,
        brand \in {"", "Old Tom"}, isAlcoholLabel \in BOOLEAN :
       \E warning \in {"", STANDARD_GOV_WARNING}
                        \cup (IF IsNull(c.text) THEN {} ELSE {Get(c.text)}) :
         CompareFieldsCall([EmptyApplicationData EXCEPT !.brandName = brand,
                                                        !.governmentWarning = warning],
                           [EmptyLabel EXCEPT !.brandName = Some("Old Tom"),
                                              !.governmentWarning = c.text,
                                              !.governmentWarningAllCaps = allCaps,
                                              !.governmentWarningBold = bold,
                                              !.isAlcoholLabel = isAlcoholLabel],
                           0, NoRounding)

NextApproval == CompareAnyWarning \/ Return

SpecApproval == Init /\ [][NextApproval]_vars

\* C27: an approved result means that the label carries the standard warning
\* (equal to it after whitespace normalization, letter case included) and that
\* governmentWarningAllCaps is not false, whether or not a warning is
\* expected; a label whose warning is missing, worded otherwise or equal up to
\* letter case only is not approved.
C27_ApprovedHasStandardWarning ==
  Compared =>
    /\ res.overallStatus = "approved" =>
         /\ ~IsNull(extracted.governmentWarning)
         /\ ComplianceKind(extracted.governmentWarning) = "exact"
         /\ extracted.governmentWarningAllCaps # Some(FALSE)
    /\ ComplianceKind(extracted.governmentWarning) \in {"missing", "case", "other"}
         => res.overallStatus # "approved"

\* approved with no warning expected: the label has the standard warning with
\* other white space, allCaps undetermined and bold false
C27_Witness ==
  /\ Compared
  /\ res.overallStatus = "approved"
  /\ expected.governmentWarning = ""
  /\ extracted.governmentWarning # Some(STANDARD_GOV_WARNING)
  /\ ComplianceKind(extracted.governmentWarning) = "exact"
  /\ extracted.governmentWarningAllCaps = NULL
  /\ extracted.governmentWarningBold = Some(FALSE)

(***************************************************************************)
(* Addresses with tokens added.  The expected addresses are written out    *)
(* with the words they stand for; an extracted address is a list of tokens *)
(* of PartWords, and in a second call the same address with more tokens    *)
(* before or after it.                                                     *)
(***************************************************************************)
MaxParts == 2

MaxAdded == 2

PartWords ==
  { [raw |-> "Main", word |-> "main"],
    [raw |-> "St",   word |-> "street"],
    [raw |-> "Troy", word |-> "troy"],
    [raw |-> "A",    word |-> "a"] }

ExpectedAddresses ==
  { [text |-> "12 Main St, Troy", words |-> <<"12", "main", "street", "troy">>],
    [text |-> "Main St. Troy",    words |-> <<"main", "street", "troy">>],
    [text |-> "Main Main Main",   words |-> <<"main", "main", "main">>],
    [text |-> "Troy; Main",       words |-> <<"troy", "main">>],
    [text |-> "Troy",             words |-> <<"troy">>],
    [text |-> "N",                words |-> <<"north">>],
    [text |-> "A, 5",             words |-> <<"a", "5">>],
    [text |-> ",",                words |-> <<>>] }

\* the lists of lo to hi tokens
PartLists(lo, hi) == UNION { [1..n -> PartWords] : n \in lo..hi }

\* an address of the tokens, a blank for no token at all
PartsText(parts) == IF Len(parts) = 0 THEN " " ELSE join(Raws(parts), " ")

\* the words that the tokens of an address written by PartsText stand for
PartsWords(text) ==
  LET raws == SelectSeq(split(text, 1), LAMBDA t : t # "")
  IN  [k \in 1..Len(raws) |-> (CHOOSE c \in PartWords : c.raw = raws[k]).word]

ExpectedWords(text) == (CHOOSE c \in ExpectedAddresses : c.text = text).words

CompareAddress ==
  /\ pc = "idle"
  /\ \E e \in ExpectedAddresses, parts \in PartLists(0, MaxParts) :
       CompareOne("producerAddress", e.text, PartsText(parts))

\* the same expected address against the label's address with tokens added
CompareWithMoreTokens ==
  /\ pc = "compared"
  /\ \E added \in PartLists(1, MaxAdded), front \in BOOLEAN :
       LET old == Get(extracted.producerAddress)
           new == IF front THEN PartsText(added) \o " " \o old
                  ELSE old \o " " \o PartsText(added)
       IN  CompareFieldsAgain(expected, [extracted EXCEPT !.producerAddress = Some(new)],
                              0, NoRounding)

NextAddress == CompareAddress \/ CompareWithMoreTokens \/ Return

SpecAddress == Init /\ [][NextAddress]_vars

\* the expected words longer than one character, by position, that are no
\* word of the extracted address
AbsentParts(ext) ==
  LET words == ExpectedWords(expected.producerAddress)
  IN  { k \in 1..Len(words) :
          /\ Len(words[k]) > 1
          /\ words[k] \notin SetOf(PartsWords(Get(ext.producerAddress))) }

LongParts ==
  LET words == ExpectedWords(expected.producerAddress)
  IN  { k \in 1..Len(words) : Len(words[k]) > 1 }

StatusRank(status) ==
  IF status = "match" THEN 0 ELSE IF status = "warning" THEN 1 ELSE 2

\* C28 (as amended): the status is decided by the number of expected tokens
\* longer than one character that are absent from the extracted tokens (none:
\* match, one or two: warning, more: mismatch); adding tokens to the
\* extracted address never makes the status worse and changes it only when an
\* absent expected token is among them; an expected address with fewer than
\* three tokens longer than one character is never a mismatch, and one with
\* none is a match, against every non-empty extracted address.
C28_OneDirectional ==
  Compared =>
    /\ res.fields[1].status =
         IF Cardinality(AbsentParts(extracted)) = 0 THEN "match"
         ELSE IF Cardinality(AbsentParts(extracted)) <= 2 THEN "warning"
         ELSE "mismatch"
    /\ Cardinality(LongParts) < 3 => res.fields[1].status \in {"match", "warning"}
    /\ Cardinality(LongParts) = 0 => res.fields[1].status = "match"
    /\ ~IsNull(previous) =>
         /\ StatusRank(res.fields[1].status) <= StatusRank(prev.result.fields[1].status)
         /\ AbsentParts(extracted) = AbsentParts(prev.extracted)
              => res.fields[1].status = prev.result.fields[1].status

\* 'Main St. Troy' is expected: 'Main St' lacks one token and is a warning;
\* with the token 'Troy' added after it nothing is absent and it is a match
C28_Witness ==
  /\ Compared
  /\ ~IsNull(previous)
  /\ expected.producerAddress = "Main St. Troy"
  /\ prev.extracted.producerAddress = Some("Main St")
  /\ extracted.producerAddress = Some("Main St Troy")
  /\ prev.result.fields[1].status = "warning"
  /\ res.fields[1].status = "match"

\* C28 as stated: adding any tokens to the extracted address never changes
\* the status.
C28_AsStated ==
  (Compared /\ ~IsNull(previous)) =>
    res.fields[1].status = prev.result.fields[1].status

(***************************************************************************)
(* Texts that state a percent and a proof, the proof not as '(p Proof)'    *)
(* after the percent.                                                      *)
(***************************************************************************)
MixedAbvs == {BaseAbv * 1000, BaseAbv * 1000 + 5000}

MixedProofs == { 2 * a : a \in MixedAbvs } \cup {2 * BaseAbv * 1000 + 500}

MixedShapes == 1..4

MixedWritten(a, p, shape) ==
  IF shape = 1 THEN DecimalText(a) \o "% ABV, " \o DecimalText(p) \o " Proof"
  ELSE IF shape = 2 THEN DecimalText(p) \o " Proof, " \o DecimalText(a) \o "%"
  ELSE IF shape = 3 THEN DecimalText(a) \o "% Alc./Vol. " \o DecimalText(p) \o "proof"
  ELSE DecimalText(p) \o " PROOF (" \o DecimalText(a) \o "% ABV)"

\* each text with the percent and the proof it states
MixedCases ==
  { [text |-> MixedWritten(a, p, shape), abv |-> a, proof |-> p] :
      a \in MixedAbvs, p \in MixedProofs, shape \in MixedShapes }

MixedCase(t) == CHOOSE c \in MixedCases : c.text = t

IsMixed(t) == \E c \in MixedCases : c.text = t

\* percent texts to compare with: each value a text states, as a% or as p / 2
MixedExpecteds ==
  { PercentText(a, "% ABV") : a \in MixedAbvs } \cup
  { PercentText(p \div 2, "%") : p \in MixedProofs }

ParseMixed ==
  /\ pc = "idle"
  /\ \E c \in MixedCases : ParseAlcoholContentCall(c.text, FALSE)

\* a percent text against a text with percent and proof, either way round
CompareMixed ==
  /\ pc = "idle"
  /\ \E c \in MixedCases, e \in MixedExpecteds, swap \in BOOLEAN, below \in BOOLEAN :
       CompareFieldsCall(
         [EmptyApplicationData EXCEPT !.alcoholContent = IF swap THEN c.text ELSE e],
         [EmptyLabel EXCEPT !.alcoholContent = Some(IF swap THEN e ELSE c.text)],
         0, [parseExpected |-> FALSE, parseExtracted |-> FALSE, diff |-> below])

NextMixed == ParseMixed \/ CompareMixed \/ Return

SpecMixed == Init /\ [][NextMixed]_vars

\* the value of a percent text of MixedExpecteds, in thousandths
PercentValue(t) ==
  CHOOSE v \in MixedAbvs \cup { p \div 2 : p \in MixedProofs } :
    t \in {PercentText(v, "% ABV"), PercentText(v, "%")}

\* C29: a text with a percent a and a proof p that is not '(p Proof)' after
\* the percent parses by the proof-only rule: proof = p, abv = p / 2 whatever
\* a is, the info note of the conversion alone, no caution note even when
\* p is not 2a; and compared with a percent text it matches exactly when
\* that percent is p / 2.
C29_MixedTakesProof ==
  /\ (Parsed /\ IsMixed(value)) =>
       /\ IsNum(par.proof, MixedCase(value).proof)
       /\ ~IsNull(par.abv)
       /\ NumEq(Get(par.abv), [n |-> MixedCase(value).proof, d |-> 2000])
       /\ par.notes = InfoNotes
       /\ \A k \in 1..Len(par.notes) : par.notes[k].level # "caution"
       /\ ~par.inferredFromBareNumber
  /\ (AlcoholCompared /\ IsMixed(Get(extracted.alcoholContent))) =>
       /\ NumEq(Get(Get(alc.normalization).extractedParsed.abv),
                [n |-> MixedCase(Get(extracted.alcoholContent)).proof, d |-> 2000])
       /\ alc.status =
            IF 2 * PercentValue(expected.alcoholContent)
                 = MixedCase(Get(extracted.alcoholContent)).proof
            THEN "match" ELSE "mismatch"
  /\ (AlcoholCompared /\ IsMixed(expected.alcoholContent)) =>
       alc.status =
         IF 2 * PercentValue(Get(extracted.alcoholContent))
              = MixedCase(expected.alcoholContent).proof
         THEN "match" ELSE "mismatch"

\* the label states the base percent and a proof ten points above twice the
\* base: against the base percent it is a mismatch, on half the proof
C29_Witness ==
  /\ AlcoholCompared
  /\ expected.alcoholContent = PercentText(BaseAbv * 1000, "% ABV")
  /\ extracted.alcoholContent
       = Some(MixedWritten(BaseAbv * 1000, 2 * BaseAbv * 1000 + 10000, 1))
  /\ alc.status = "mismatch"
  /\ Get(alc.normalization).extractedParsed.notes = InfoNotes
  /\ NumEq(Get(Get(alc.normalization).extractedParsed.abv),
           Thousandths(BaseAbv * 1000 + 5000))

(***************************************************************************)
(* Pairs of calls again (SpecPairs): what the bold finding can change.     *)
(***************************************************************************)
\* of two calls that differ only in governmentWarningBold, the one with
\* bold = false and the other one (bold true or null)
BoldFalseAgainstOther ==
  /\ OnlyBoldDiffers
  /\ Some(FALSE) \in {extracted.governmentWarningBold, prev.extracted.governmentWarningBold}

BoldFalseCall ==
  IF extracted.governmentWarningBold = Some(FALSE)
  THEN [extracted |-> extracted, result |-> res]
  ELSE [extracted |-> prev.extracted, result |-> prev.result]

OtherBoldCall ==
  IF extracted.governmentWarningBold = Some(FALSE)
  THEN [extracted |-> prev.extracted, result |-> prev.result]
  ELSE [extracted |-> extracted, result |-> res]

\* the statuses of the governmentWarning field in a result (none when the
\* field was not compared)
WarningStatuses(r) ==
  { r.fields[k].status : k \in { n \in 1..Len(r.fields) :
                                   r.fields[n].key = "governmentWarning" } }

\* C30: of two calls with the same expected record whose labels differ only
\* in governmentWarningBold, false in one and true or null in the other, the
\* overall statuses are equal when no warning is expected; they differ only
\* when the warning is a compared field and its text is the expected text,
\* and then the label with bold = false has the field status warning and
\* needs review while the other is approved.
C30_BoldDecidesOnlyOnMatch ==
  BoldFalseAgainstOther =>
    /\ expected.governmentWarning = ""
         => BoldFalseCall.result.overallStatus = OtherBoldCall.result.overallStatus
    /\ BoldFalseCall.result.overallStatus # OtherBoldCall.result.overallStatus
         => /\ expected.governmentWarning # ""
            /\ extracted.governmentWarning = Some(expected.governmentWarning)
            /\ WarningStatuses(BoldFalseCall.result) = {"warning"}
            /\ WarningStatuses(OtherBoldCall.result) = {"match"}
            /\ BoldFalseCall.result.overallStatus = "needs_review"
            /\ OtherBoldCall.result.overallStatus = "approved"

\* the standard warning and the brand name are expected and on the label:
\* with bold undetermined the label is approved, with bold false the warning
\* field is a warning and the label needs review
C30_Witness ==
  /\ BoldFalseAgainstOther
  /\ expected.governmentWarning = STANDARD_GOV_WARNING
  /\ expected.brandName = "Old Tom"
  /\ prev.extracted.governmentWarningBold = NULL
  /\ prev.result.overallStatus = "approved"
  /\ extracted.governmentWarningBold = Some(FALSE)
  /\ WarningStatuses(res) = {"warning"}
  /\ res.overallStatus = "needs_review"

====
